---- MODULE Spec2Model ----
(***************************************************************************)
(* Model of the web-serial-rxjs client (SerialClientImpl) and of its two   *)
(* stream bridges (readableToObservable, subscribeToWritable), together    *)
(* with the part of the platform they talk to: serial ports with an        *)
(* open/close life cycle, a lockable readable side and a lockable writable *)
(* side with a queue of pending sink operations.                           *)
(*                                                                         *)
(* Every asynchronous platform call is a pair of steps: the call (made     *)
(* inside the handler that issues it) and its settlement, which runs the   *)
(* promise callbacks attached by the code.  Steps interleave freely, as    *)
(* callbacks do on the event loop.                                         *)
(***************************************************************************)
EXTENDS Integers, Sequences, FiniteSets, TLC

\* ---------------------------------------------------------------- bounds
NumPorts == 2
MaxConnect == 2
MaxDisconnect == 2
MaxRead == 2
MaxWS == 2
MaxWrite == 1
MaxChunks == 2
\* The stream specifications use a smaller connection environment.
LinkMaxPort == 1
LinkMaxConnect == 2
LinkMaxDisconnect == 1
\* The teardown specification runs both bridges side by side.
TdMaxRead == 1
TdMaxWS == 2
\* Calls of requestPort() and of observableToWritable().
MaxRequest == 2
MaxSinks == 2

Ports == 1..NumPorts
NoPort == 0
ConnIds == 1..MaxConnect
DiscIds == 1..MaxDisconnect
RdIds == 1..MaxRead
WsIds == 1..MaxWS
WrIds == 1..MaxWrite
RpIds == 1..MaxRequest
SinkIds == 1..MaxSinks
\* A pair of streams (readable, writable) is created by each successful
\* open(); it is named after the connect attempt that opened the port.
Streams == ConnIds
NoStream == 0

\* ------------------------------------------------------- error values
\* Values a platform promise can reject with (or a call can throw).
PlainError == [cls |-> "Error", message |-> "boom"]
NonError == [cls |-> "Value", message |-> "boom"]
NotFoundError == [cls |-> "DOMException", name |-> "NotFoundError", message |-> "no port selected"]
InvalidStateError == [cls |-> "DOMException", name |-> "InvalidStateError", message |-> "invalid state"]
LockedTypeError == [cls |-> "TypeError", message |-> "stream is locked"]

\* error instanceof Error
IsError(e) == e.cls \in {"Error", "DOMException", "TypeError", "SerialError"}

\* error instanceof Error ? error : new Error(String(error))
ToError(e) == IF IsError(e) THEN e ELSE [cls |-> "Error", message |-> e.message]

NoError == [cls |-> "None"]

SerialError(code, message, originalError) ==
  [cls |-> "SerialError", code |-> code, message |-> message, originalError |-> originalError]

SerialErrorCode ==
  {"BROWSER_NOT_SUPPORTED", "PORT_NOT_AVAILABLE", "PORT_OPEN_FAILED",
   "PORT_ALREADY_OPEN", "PORT_NOT_OPEN", "READ_FAILED", "WRITE_FAILED",
   "CONNECTION_LOST", "INVALID_FILTER_OPTIONS", "OPERATION_CANCELLED",
   "UNKNOWN"}

\* A SerialError that reaches the client from below (a port whose open()
\* itself rejects with a SerialError).
ForeignSerialError == SerialError("PORT_NOT_AVAILABLE", <<"foreign">>, NoError)

\* What a platform promise may reject with.
Rejections == {PlainError, NonError, ForeignSerialError}

\* --------------------------------------------------- notifications
Next0 == [n |-> "next", v |-> 0]
Complete == [n |-> "complete"]
ErrorN(e) == [n |-> "error", e |-> e]
IsTerminal(x) == x.n \in {"complete", "error"}

\* Subscriber.next / complete / error: nothing is delivered once the
\* subscriber is closed, i.e. after a terminal notification.
Closed(log) == \E k \in 1..Len(log) : IsTerminal(log[k])
Deliver(log, x) == IF Closed(log) THEN log ELSE Append(log, x)

VARIABLES
  port,               \* SerialClientImpl.port (NoPort = null)
  isOpen,             \* SerialClientImpl.isOpen
  readSubscription,   \* SerialClientImpl.readSubscription (NoHandle = null)
  writeSubscription,  \* SerialClientImpl.writeSubscription (NoHandle = null)
  native,             \* platform: state of each port
  cur,                \* platform: the stream pair of each port, NoStream when it has none
  rlock,              \* platform: holder of the reader lock of each readable
  wlock,              \* platform: holder of the writer lock of each writable
  sinkState,          \* platform: state of each writable
  sinkQ,              \* platform: operations pending on each writable, oldest first
  written,            \* platform: chunks each writable has accepted, in order, each with its writer
  pulled,             \* platform: number of chunks read so far from each readable
  conn,               \* the observables returned by connect()
  disc,               \* the subscriptions of disconnect()
  rd,                 \* the observables returned by getReadStream()
  ws,                 \* the calls of writeStream()
  wr,                 \* the subscriptions of write()
  options,            \* SerialClientImpl.options, the argument of buildRequestOptions()
  built,              \* what the last call of buildRequestOptions() returned or threw
  rp,                 \* the subscriptions of requestPort()
  o2w                 \* the sinks made by observableToWritable()

client == <<port, isOpen, readSubscription, writeSubscription>>
platform == <<native, cur, rlock, wlock, sinkState, sinkQ, written, pulled>>
helpers == <<options, built, rp, o2w>>
vars == <<port, isOpen, readSubscription, writeSubscription, native, cur,
          rlock, wlock, sinkState, sinkQ, written, pulled, conn, disc, rd, ws, wr,
          options, built, rp, o2w>>

\* ------------------------------------------------------------ platform
\* port.readable / port.writable: null unless the port is opened.
Readable(p) == IF native[p] = "opened" THEN cur[p] ELSE NoStream
Writable(p) == IF native[p] = "opened" THEN cur[p] ELSE NoStream

\* SerialPort.open(): rejects unless the port is closed.
OpenCallValid(p) == native[p] = "closed"
\* SerialPort.close(): rejects unless the port is opened.
CloseCallValid(p) == native[p] = "opened"

\* Lock holders: a write driver w holds a writer lock as w, a write(chunk)
\* subscription x as MaxWS + x.
DrvHolder(w) == w
WrHolder(x) == MaxWS + x

\* ---------------------------------------------------------- handles
\* A write-subscription handle: the driver whose teardown it runs, then the
\* writeStream subscribers it completes (the wrappers installed by
\* subscriptions of the returned observables, innermost first).
NoHandle == [drv |-> 0, subs |-> <<>>]
RawHandle(w) == [drv |-> w, subs |-> <<>>]
Wrap(h, w) == [drv |-> h.drv, subs |-> Append(h.subs, w)]
Range(f) == {f[k] : k \in DOMAIN f}

\* ------------------------------------------------------ initial state
\* rej records what the platform call of the operation rejected with.
NoConn == [st |-> "unused", guarded |-> FALSE, arg |-> NoPort, sel |-> NoPort,
           valid |-> FALSE, rej |-> NoError, notifs |-> <<>>]
NoDisc == [st |-> "unused", prt |-> NoPort, valid |-> FALSE, rej |-> NoError,
           notifs |-> <<>>]
\* rel counts the calls of reader.releaseLock() that returned.
NoRd == [st |-> "unused", strm |-> NoStream, start |-> 0, unsub |-> FALSE,
         again |-> FALSE, thrown |-> NoError, rej |-> NoError, notifs |-> <<>>,
         rel |-> 0]
NoWs == [st |-> "unused", thrown |-> NoError, src |-> 0, strm |-> NoStream,
         dsub |-> "none", dpos |-> 0, released |-> FALSE, fin |-> "none",
         tsub |-> "none", tpos |-> 0, notifs |-> <<>>, failed |-> NoError,
         unsub |-> FALSE]
NoWr == [st |-> "unused", strm |-> NoStream, rej |-> NoError, notifs |-> <<>>]
NoRp == [st |-> "unused", sel |-> NoPort, rej |-> NoError, notifs |-> <<>>]
\* The closure of observableToWritable() and the stream it returns: its
\* source, whether its variables stream and writer are set, its
\* subscription to the source, and whether the stream is locked.
NoO2w == [st |-> "unused", src |-> 0, stream |-> FALSE, writer |-> FALSE,
          subscription |-> "none", locked |-> FALSE]
\* An absent options argument, absent options.filters, and the state before
\* any call of buildRequestOptions().
NoOptions == [t |-> "undefined"]
NoFilters == [t |-> "undefined"]
NotBuilt == [t |-> "none"]
\* The options of a client: the defaults merged with what the constructor
\* was given, filters: options?.filters.
Options(filters) == [t |-> "options", filters |-> filters]

\* The state after `new SerialClientImpl(options)`: no port, not open, no
\* subscription; every platform port is closed.
Init ==
  /\ port = NoPort
  /\ isOpen = FALSE
  /\ readSubscription = NoHandle
  /\ writeSubscription = NoHandle
  /\ native = [p \in Ports |-> "closed"]
  /\ cur = [p \in Ports |-> NoStream]
  /\ rlock = [s \in Streams |-> 0]
  /\ wlock = [s \in Streams |-> 0]
  /\ sinkState = [s \in Streams |-> "writable"]
  /\ sinkQ = [s \in Streams |-> <<>>]
  /\ written = [s \in Streams |-> <<>>]
  /\ pulled = [s \in Streams |-> 0]
  /\ conn = [i \in ConnIds |-> NoConn]
  /\ disc = [d \in DiscIds |-> NoDisc]
  /\ rd = [r \in RdIds |-> NoRd]
  /\ ws = [w \in WsIds |-> NoWs]
  /\ wr = [x \in WrIds |-> NoWr]
  /\ options = Options(NoFilters)
  /\ built = NotBuilt
  /\ rp = [k \in RpIds |-> NoRp]
  /\ o2w = [k \in SinkIds |-> NoO2w]

\* The next unused slot of a table of operations.
Fresh(tab, k) == tab[k].st = "unused" /\ \A j \in DOMAIN tab : j < k => tab[j].st # "unused"

\* ------------------------------------------- teardown of a write handle
\* subscriber.complete / error of the subscriber of a writeStream()
\* observable: dropped once the consumer has unsubscribed or a terminal
\* notification has been delivered.
WsDeliver(x, n) == IF x.unsub THEN x.notifs ELSE Deliver(x.notifs, n)

\* handle.unsubscribe() for the handle h: the driver's teardown
\* (subscription.unsubscribe(); writer.releaseLock()), then
\* subscriber.complete() for every wrapper around it.
WsAfterUnsub(wsf, h) ==
  [k \in WsIds |->
     LET a == IF k = h.drv
              THEN [wsf[k] EXCEPT !.dsub = IF @ = "active" THEN "closed" ELSE @,
                                  !.released = TRUE]
              ELSE wsf[k]
     IN IF k \in Range(h.subs)
        THEN [a EXCEPT !.notifs = WsDeliver(a, Complete)]
        ELSE a]

\* writer.releaseLock() of the driver w: frees the lock if w holds it.
ReleaseW(wl, holder) == [s \in Streams |-> IF wl[s] = holder THEN 0 ELSE wl[s]]

\* ------------------------------------------------- buildRequestOptions
\* The values a filter field can hold: undefined, an integer, or a number
\* that is not an integer.
Undefined == [t |-> "undefined"]
Integer(n) == [t |-> "number", int |-> TRUE, v |-> n]
Fraction == [t |-> "number", int |-> FALSE, v |-> 1]
MaxId == 65535

\* !value for a filter field: undefined and 0 are falsy.
Falsy(v) == v.t = "undefined" \/ (v.t = "number" /\ v.int /\ v.v = 0)
\* !Number.isInteger(v) || v < 0 || v > 0xffff
OutOfRange(v) == ~v.int \/ v.v < 0 \/ v.v > MaxId

\* The validation loop's body with the presence test written as a
\* comparison with undefined instead of a truthiness test.
FilterError_DefinedTest(f) ==
  IF f.usbVendorId = Undefined /\ f.usbProductId = Undefined
  THEN <<"Filter must have at least usbVendorId or usbProductId">>
  ELSE IF f.usbVendorId # Undefined /\ OutOfRange(f.usbVendorId)
  THEN <<"Invalid usbVendorId", f.usbVendorId>>
  ELSE IF f.usbProductId # Undefined /\ OutOfRange(f.usbProductId)
  THEN <<"Invalid usbProductId", f.usbProductId>>
  ELSE <<>>

\* The body of the validation loop for one filter: the message of the
\* error it throws, <<>> when it throws none.
FilterError(f) ==
  IF Falsy(f.usbVendorId) /\ Falsy(f.usbProductId)
  THEN <<"Filter must have at least usbVendorId or usbProductId">>
  ELSE IF f.usbVendorId # Undefined /\ OutOfRange(f.usbVendorId)
  THEN <<"Invalid usbVendorId", f.usbVendorId>>
  ELSE IF f.usbProductId # Undefined /\ OutOfRange(f.usbProductId)
  THEN <<"Invalid usbProductId", f.usbProductId>>
  ELSE <<>>

\* A filter list (an array of filters).
Array(items) == [t |-> "array", items |-> items]

Returned(value) == [t |-> "returned", value |-> value]
Thrown(e) == [t |-> "thrown", error |-> e]

\* for (const filter of options.filters): the first filter in error throws.
RECURSIVE ValidateFrom(_, _)
ValidateFrom(filters, k) ==
  IF k > Len(filters.items) THEN Returned([filters |-> filters])
  ELSE IF FilterError(filters.items[k]) # <<>>
  THEN Thrown(SerialError("INVALID_FILTER_OPTIONS", FilterError(filters.items[k]), NoError))
  ELSE ValidateFrom(filters, k + 1)

\* buildRequestOptions(options)
BuildRequestOptions(opts) ==
  IF opts = NoOptions THEN Returned(Undefined)
  ELSE IF opts.filters = NoFilters THEN Returned(Undefined)
  ELSE IF Len(opts.filters.items) = 0 THEN Returned(Undefined)
  ELSE ValidateFrom(opts.filters, 1)

\* A call of buildRequestOptions() on the options at hand.
CallBuildRequestOptions ==
  /\ built = NotBuilt
  /\ built' = BuildRequestOptions(options)
  /\ UNCHANGED <<client, platform, conn, disc, rd, ws, wr, options, rp, o2w>>

\* ------------------------------------------------------------ connect
\* A catch of requestPort() without the test for the cancellation signal.
RequestPortCatch_NoCancelTest(e) ==
  SerialError("PORT_NOT_AVAILABLE", <<"Failed to request port", e.message>>, ToError(e))

\* requestPort()'s catch: the cancellation signal becomes
\* OPERATION_CANCELLED, anything else PORT_NOT_AVAILABLE.
RequestPortCatch(e) ==
  IF e.cls = "DOMException" /\ e.name = "NotFoundError"
  THEN SerialError("OPERATION_CANCELLED", <<"Port selection was cancelled by the user">>, e)
  ELSE SerialError("PORT_NOT_AVAILABLE", <<"Failed to request port", e.message>>, ToError(e))

\* connect()'s catch of a rejected open().
OpenCatch(e) ==
  IF e.cls = "SerialError" THEN e
  ELSE SerialError("PORT_OPEN_FAILED", <<"Failed to open port", e.message>>, ToError(e))

\* connect() without its guard on isOpen.
Connect_NoGuard(i, p) ==
  /\ Fresh(conn, i)
  /\ conn' = [conn EXCEPT ![i] = [NoConn EXCEPT !.st = "created", !.guarded = FALSE, !.arg = p]]
  /\ UNCHANGED <<client, platform, disc, rd, ws, wr, helpers>>

\* connect(port?): the guard on isOpen is evaluated when connect() is
\* called; the observable it returns does the rest when subscribed.
Connect(i, p) ==
  /\ Fresh(conn, i)
  /\ conn' = [conn EXCEPT ![i] = [NoConn EXCEPT !.st = "created", !.guarded = isOpen, !.arg = p]]
  /\ UNCHANGED <<client, platform, disc, rd, ws, wr, helpers>>

\* The inner defer of connect(): store the handle, call port.open().
StartOpen(i, p) ==
  /\ port' = p
  /\ conn' = [conn EXCEPT ![i].st = "opening", ![i].sel = p, ![i].valid = OpenCallValid(p)]
  /\ native' = IF OpenCallValid(p) THEN [native EXCEPT ![p] = "opening"] ELSE native

ConnectSubscribe(i) ==
  /\ conn[i].st = "created"
  /\ IF conn[i].guarded
     THEN /\ conn' = [conn EXCEPT ![i].st = "done",
                 ![i].notifs = <<ErrorN(SerialError("PORT_ALREADY_OPEN", <<"Port is already open">>, NoError))>>]
          /\ UNCHANGED <<port, native>>
     ELSE IF conn[i].arg # NoPort
     THEN StartOpen(i, conn[i].arg)
     ELSE /\ conn' = IF BuildRequestOptions(options).t = "thrown"
                      THEN [conn EXCEPT ![i].st = "done",
                              ![i].notifs = <<ErrorN(BuildRequestOptions(options).error)>>]
                      ELSE [conn EXCEPT ![i].st = "requesting"]
          /\ UNCHANGED <<port, native>>
  /\ UNCHANGED <<isOpen, readSubscription, writeSubscription, cur, rlock, wlock,
                 sinkState, sinkQ, written, pulled, disc, rd, ws, wr, helpers>>

\* navigator.serial.requestPort() resolves with the chosen port.
RequestPortResolve(i, p) ==
  /\ conn[i].st = "requesting"
  /\ StartOpen(i, p)
  /\ UNCHANGED <<isOpen, readSubscription, writeSubscription, cur, rlock, wlock,
                 sinkState, sinkQ, written, pulled, disc, rd, ws, wr, helpers>>

\* navigator.serial.requestPort() rejects.
RequestPortReject(i, e) ==
  /\ conn[i].st = "requesting"
  /\ conn' = [conn EXCEPT ![i].st = "done", ![i].rej = e,
                           ![i].notifs = <<ErrorN(RequestPortCatch(e))>>]
  /\ UNCHANGED <<client, platform, disc, rd, ws, wr, helpers>>

\* ----------------------------------------------------------- getters
\* get connected() and get currentPort(): the two fields as they are.
connected == isOpen
currentPort == port

\* ------------------------------------------------------- requestPort
NextV(v) == [n |-> "next", v |-> v]

\* Subscribing to requestPort(): the defer evaluates
\* buildRequestOptions(this.options), whose throw becomes the error of the
\* subscription, and calls navigator.serial.requestPort().
RequestPort(k) ==
  /\ Fresh(rp, k)
  /\ rp' = IF BuildRequestOptions(options).t = "thrown"
           THEN [rp EXCEPT ![k].st = "done",
                   ![k].notifs = <<ErrorN(BuildRequestOptions(options).error)>>]
           ELSE [rp EXCEPT ![k].st = "requesting"]
  /\ UNCHANGED <<client, platform, conn, disc, rd, ws, wr, options, built, o2w>>

\* A requestPort() that stores the chosen handle in the client.
PortChosen_StoresHandle(k, p) ==
  /\ rp[k].st = "requesting"
  /\ rp' = [rp EXCEPT ![k].st = "done", ![k].sel = p,
                       ![k].notifs = <<NextV(p), Complete>>]
  /\ port' = p
  /\ UNCHANGED <<isOpen, readSubscription, writeSubscription, platform,
                 conn, disc, rd, ws, wr, options, built, o2w>>

\* The platform call resolves with the chosen port: it is emitted and the
\* observable completes.
PortChosen(k, p) ==
  /\ rp[k].st = "requesting"
  /\ rp' = [rp EXCEPT ![k].st = "done", ![k].sel = p,
                       ![k].notifs = <<NextV(p), Complete>>]
  /\ UNCHANGED <<client, platform, conn, disc, rd, ws, wr, options, built, o2w>>

\* The platform call rejects: the catch of requestPort().
PortRefused(k, e) ==
  /\ rp[k].st = "requesting"
  /\ rp' = [rp EXCEPT ![k].st = "done", ![k].rej = e,
                       ![k].notifs = <<ErrorN(RequestPortCatch(e))>>]
  /\ UNCHANGED <<client, platform, conn, disc, rd, ws, wr, options, built, o2w>>

\* port.open() resolves: the .then of connect().
OpenResolve(i) ==
  /\ conn[i].st = "opening"
  /\ conn[i].valid
  /\ isOpen' = TRUE
  /\ native' = [native EXCEPT ![conn[i].sel] = "opened"]
  /\ cur' = [cur EXCEPT ![conn[i].sel] = i]
  /\ conn' = [conn EXCEPT ![i].st = "done", ![i].notifs = <<Next0, Complete>>]
  /\ UNCHANGED <<port, readSubscription, writeSubscription, rlock, wlock,
                 sinkState, sinkQ, written, pulled, disc, rd, ws, wr, helpers>>

\* A catch of connect() that forgets to discard the stored handle.
OpenReject_KeepsHandle(i, e) ==
  /\ conn[i].st = "opening"
  /\ IF conn[i].valid THEN e \in Rejections ELSE e = InvalidStateError
  /\ isOpen' = FALSE
  /\ native' = IF conn[i].valid THEN [native EXCEPT ![conn[i].sel] = "closed"] ELSE native
  /\ conn' = [conn EXCEPT ![i].st = "done", ![i].rej = e, ![i].notifs = <<ErrorN(OpenCatch(e))>>]
  /\ UNCHANGED <<port, readSubscription, writeSubscription, cur, rlock, wlock,
                 sinkState, sinkQ, written, pulled, disc, rd, ws, wr, helpers>>

\* port.open() rejects: the .catch of connect().
OpenReject(i, e) ==
  /\ conn[i].st = "opening"
  /\ IF conn[i].valid THEN e \in Rejections ELSE e = InvalidStateError
  /\ port' = NoPort
  /\ isOpen' = FALSE
  /\ native' = IF conn[i].valid THEN [native EXCEPT ![conn[i].sel] = "closed"] ELSE native
  /\ conn' = [conn EXCEPT ![i].st = "done", ![i].rej = e, ![i].notifs = <<ErrorN(OpenCatch(e))>>]
  /\ UNCHANGED <<readSubscription, writeSubscription, cur, rlock, wlock,
                 sinkState, sinkQ, written, pulled, disc, rd, ws, wr, helpers>>

\* --------------------------------------------------------- disconnect
\* A disconnect() whose guard tests only the stored handle.
Disconnect_GuardPortOnly(d) ==
  /\ Fresh(disc, d)
  /\ IF port = NoPort
     THEN /\ disc' = [disc EXCEPT ![d] = [NoDisc EXCEPT !.st = "done", !.notifs = <<Next0, Complete>>]]
          /\ UNCHANGED <<readSubscription, writeSubscription, native, wlock, ws>>
     ELSE /\ readSubscription' = NoHandle
          /\ writeSubscription' = NoHandle
          /\ ws' = WsAfterUnsub(ws, writeSubscription)
          /\ wlock' = IF writeSubscription = NoHandle THEN wlock
                      ELSE ReleaseW(wlock, DrvHolder(writeSubscription.drv))
          /\ disc' = [disc EXCEPT ![d] = [NoDisc EXCEPT !.st = "closing", !.prt = port,
                                                        !.valid = CloseCallValid(port)]]
          /\ native' = IF CloseCallValid(port) THEN [native EXCEPT ![port] = "closing"] ELSE native
  /\ UNCHANGED <<port, isOpen, cur, rlock, sinkState, sinkQ, written, pulled, conn, rd, wr, helpers>>

\* A disconnect() that calls close() without the write teardown.
Disconnect_KeepsWriter(d) ==
  /\ Fresh(disc, d)
  /\ IF ~isOpen \/ port = NoPort
     THEN /\ disc' = [disc EXCEPT ![d] = [NoDisc EXCEPT !.st = "done", !.notifs = <<Next0, Complete>>]]
          /\ UNCHANGED <<readSubscription, writeSubscription, native, wlock, ws>>
     ELSE /\ readSubscription' = NoHandle
          /\ UNCHANGED <<writeSubscription, ws, wlock>>
          /\ disc' = [disc EXCEPT ![d] = [NoDisc EXCEPT !.st = "closing", !.prt = port,
                                                        !.valid = CloseCallValid(port)]]
          /\ native' = IF CloseCallValid(port) THEN [native EXCEPT ![port] = "closing"] ELSE native
  /\ UNCHANGED <<port, isOpen, cur, rlock, sinkState, sinkQ, written, pulled, conn, rd, wr, helpers>>

\* disconnect() subscribed: the body of its defer.
Disconnect(d) ==
  /\ Fresh(disc, d)
  /\ IF ~isOpen \/ port = NoPort
     THEN /\ disc' = [disc EXCEPT ![d] = [NoDisc EXCEPT !.st = "done", !.notifs = <<Next0, Complete>>]]
          /\ UNCHANGED <<readSubscription, writeSubscription, native, wlock, ws>>
     ELSE /\ readSubscription' = NoHandle
          /\ writeSubscription' = NoHandle
          /\ ws' = WsAfterUnsub(ws, writeSubscription)
          /\ wlock' = IF writeSubscription = NoHandle THEN wlock
                      ELSE ReleaseW(wlock, DrvHolder(writeSubscription.drv))
          /\ disc' = [disc EXCEPT ![d] = [NoDisc EXCEPT !.st = "closing", !.prt = port,
                                                        !.valid = CloseCallValid(port)]]
          /\ native' = IF CloseCallValid(port) THEN [native EXCEPT ![port] = "closing"] ELSE native
  /\ UNCHANGED <<port, isOpen, cur, rlock, sinkState, sinkQ, written, pulled, conn, rd, wr, helpers>>

\* port.close() resolves: the .then of disconnect().
CloseResolve(d) ==
  /\ disc[d].st = "closing"
  /\ disc[d].valid
  /\ port' = NoPort
  /\ isOpen' = FALSE
  /\ native' = [native EXCEPT ![disc[d].prt] = "closed"]
  /\ cur' = [cur EXCEPT ![disc[d].prt] = NoStream]
  /\ disc' = [disc EXCEPT ![d].st = "done", ![d].notifs = <<Next0, Complete>>]
  /\ UNCHANGED <<readSubscription, writeSubscription, rlock, wlock, sinkState,
                 sinkQ, written, pulled, conn, rd, ws, wr, helpers>>

\* port.close() rejects: the .catch of disconnect().
CloseCatch(e) ==
  SerialError("CONNECTION_LOST", <<"Failed to close port", e.message>>, ToError(e))

\* A catch of disconnect() that leaves the client open.
CloseReject_KeepsState(d, e) ==
  /\ disc[d].st = "closing"
  /\ IF disc[d].valid THEN e \in Rejections ELSE e = InvalidStateError
  /\ native' = IF disc[d].valid THEN [native EXCEPT ![disc[d].prt] = "opened"] ELSE native
  /\ disc' = [disc EXCEPT ![d].st = "done", ![d].rej = e, ![d].notifs = <<ErrorN(CloseCatch(e))>>]
  /\ UNCHANGED <<port, isOpen, readSubscription, writeSubscription, cur, rlock, wlock,
                 sinkState, sinkQ, written, pulled, conn, rd, ws, wr, helpers>>

CloseReject(d, e) ==
  /\ disc[d].st = "closing"
  /\ IF disc[d].valid THEN e \in Rejections ELSE e = InvalidStateError
  /\ port' = NoPort
  /\ isOpen' = FALSE
  /\ native' = IF disc[d].valid THEN [native EXCEPT ![disc[d].prt] = "opened"] ELSE native
  /\ disc' = [disc EXCEPT ![d].st = "done", ![d].rej = e, ![d].notifs = <<ErrorN(CloseCatch(e))>>]
  /\ UNCHANGED <<readSubscription, writeSubscription, cur, rlock, wlock, sinkState,
                 sinkQ, written, pulled, conn, rd, ws, wr, helpers>>

\* ------------------------------------------------------- read bridge
PortNotOpen(what) ==
  SerialError("PORT_NOT_OPEN", <<"Port is not open or stream is not available", what>>, NoError)

\* getReadStream(): throws PORT_NOT_OPEN synchronously, or returns
\* readableToObservable(this.port.readable).
GetReadStream(r) ==
  /\ Fresh(rd, r)
  /\ IF ~isOpen \/ port = NoPort
     THEN rd' = [rd EXCEPT ![r].st = "thrown", ![r].thrown = PortNotOpen("readable")]
     ELSE IF Readable(port) = NoStream
     THEN rd' = [rd EXCEPT ![r].st = "thrown", ![r].thrown = PortNotOpen("readable")]
     ELSE rd' = [rd EXCEPT ![r].st = "created", ![r].strm = Readable(port)]
  /\ UNCHANGED <<client, platform, conn, disc, ws, wr, helpers>>

\* Subscribing to the observable of readableToObservable: stream.getReader()
\* (which throws on a locked stream; the Observable reports the throw to the
\* subscriber), then pump() issues its first reader.read().
ReadSubscribe(r) ==
  /\ rd[r].st = "created"
  /\ IF rlock[rd[r].strm] # 0
     THEN /\ rd' = [rd EXCEPT ![r].st = "ended", ![r].notifs = <<ErrorN(LockedTypeError)>>]
          /\ UNCHANGED rlock
     ELSE /\ rd' = [rd EXCEPT ![r].st = "pumping", ![r].start = pulled[rd[r].strm]]
          /\ rlock' = [rlock EXCEPT ![rd[r].strm] = r]
  /\ UNCHANGED <<client, native, cur, wlock, sinkState, sinkQ, written, pulled, conn, disc, ws, wr, helpers>>

\* reader.releaseLock() of the subscription r.
ReleaseR(rl, r) == [s \in Streams |-> IF rl[s] = r THEN 0 ELSE rl[s]]

RdClosed(x) == x.unsub \/ Closed(x.notifs)
\* A subscriber that accepts notifications after it has been closed.
RdDeliver_NoClosedTest(x, n) == Append(x.notifs, n)

\* subscriber.next / complete / error of a read subscription.
RdDeliver(x, n) == IF RdClosed(x) THEN x.notifs ELSE Append(x.notifs, n)

\* A pump loop that drops the chunk it has read.
ReadChunk_Skips(r) ==
  /\ rd[r].st = "pumping"
  /\ pulled[rd[r].strm] < MaxChunks
  /\ pulled' = [pulled EXCEPT ![rd[r].strm] = @ + 1]
  /\ UNCHANGED <<client, native, cur, rlock, wlock, sinkState, sinkQ, written, conn, disc, rd, ws, wr, helpers>>

\* The pending reader.read() yields a chunk, the next one of the stream:
\* subscriber.next(value), and the loop issues the next read.
ReadChunk(r) ==
  /\ rd[r].st = "pumping"
  /\ pulled[rd[r].strm] < MaxChunks
  /\ pulled' = [pulled EXCEPT ![rd[r].strm] = @ + 1]
  /\ rd' = [rd EXCEPT ![r].notifs = RdDeliver(rd[r], [n |-> "next", v |-> pulled[rd[r].strm] + 1])]
  /\ UNCHANGED <<client, native, cur, rlock, wlock, sinkState, sinkQ, written, conn, disc, ws, wr, helpers>>

\* The calls of reader.releaseLock() when pump() ends: one by the cleanup
\* function, which a terminal notification runs unless the subscriber is
\* closed already, and one by the finally.
ReleasesAtEnd(x) == IF RdClosed(x) THEN 1 ELSE 2

\* The pending reader.read() yields done: subscriber.complete(), whose
\* teardown releases the lock; the finally releases it again.
ReadDone(r) ==
  /\ rd[r].st = "pumping"
  /\ rd' = [rd EXCEPT ![r].st = "ended", ![r].notifs = RdDeliver(rd[r], Complete),
                       ![r].rel = @ + ReleasesAtEnd(rd[r])]
  /\ rlock' = ReleaseR(rlock, r)
  /\ UNCHANGED <<client, native, cur, wlock, sinkState, sinkQ, written, pulled, conn, disc, ws, wr, helpers>>

\* A catch that takes every thrown value for an Error.
ReadCatch_NoShapeTest(e) ==
  SerialError("READ_FAILED", <<"Failed to read from stream", e.message>>, e)

\* pump()'s catch.
ReadCatch(e) ==
  IF IsError(e)
  THEN SerialError("READ_FAILED", <<"Failed to read from stream", e.message>>, e)
  ELSE SerialError("READ_FAILED", <<"Failed to read from stream", "Unknown error">>, e)

\* The pending reader.read() rejects.
ReadFail(r, e) ==
  /\ rd[r].st = "pumping"
  /\ rd' = [rd EXCEPT ![r].st = "ended", ![r].rej = e,
                       ![r].notifs = RdDeliver(rd[r], ErrorN(ReadCatch(e))),
                       ![r].rel = @ + ReleasesAtEnd(rd[r])]
  /\ rlock' = ReleaseR(rlock, r)
  /\ UNCHANGED <<client, native, cur, wlock, sinkState, sinkQ, written, pulled, conn, disc, ws, wr, helpers>>

\* What reader.releaseLock() throws, on platforms that refuse it, while a
\* read() of the reader is pending.
PendingReadTypeError == [cls |-> "TypeError", message |-> "reader has pending read requests"]

\* The consumer unsubscribes: the cleanup function calls reader.releaseLock()
\* while the read() issued by pump() is pending.  What that does depends on
\* the platform (the package supports Chrome and Edge from version 89 on).
\* Under the current Streams standard the lock is released and the pending
\* read is rejected; pump()'s catch then finds the subscriber closed and its
\* finally releases an already released lock.  Under the standard as
\* implemented before 2022 releaseLock() throws a TypeError and keeps the
\* lock: unsubscribe() throws, and pump() goes on reading for a closed
\* subscriber until the stream ends or fails.
ReadUnsubscribe(r) ==
  /\ rd[r].st = "pumping"
  /\ ~RdClosed(rd[r])
  /\ \/ /\ rd' = [rd EXCEPT ![r].st = "ended", ![r].unsub = TRUE, ![r].rel = @ + 2]
        /\ rlock' = ReleaseR(rlock, r)
     \/ /\ rd' = [rd EXCEPT ![r].unsub = TRUE, ![r].thrown = PendingReadTypeError]
        /\ UNCHANGED rlock
  /\ UNCHANGED <<client, native, cur, wlock, sinkState, sinkQ, written, pulled, conn, disc, ws, wr, helpers>>

\* A second unsubscribe() that runs the cleanup again, over a reader whose
\* release is not repeatable.
ReadUnsubscribeAgain_Throws(r) ==
  /\ rd[r].st \in {"pumping", "ended"}
  /\ RdClosed(rd[r])
  /\ ~rd[r].again
  /\ rd' = [rd EXCEPT ![r].again = TRUE, ![r].thrown = LockedTypeError]
  /\ UNCHANGED <<client, platform, conn, disc, ws, wr, helpers>>

\* The consumer calls unsubscribe() on a subscription that has already
\* ended (by completion, failure or an earlier unsubscribe): the subscription
\* is closed, so the cleanup function does not run again.
ReadUnsubscribeAgain(r) ==
  /\ rd[r].st \in {"pumping", "ended"}
  /\ RdClosed(rd[r])
  /\ ~rd[r].again
  /\ rd' = [rd EXCEPT ![r].again = TRUE]
  /\ UNCHANGED <<client, platform, conn, disc, ws, wr, helpers>>

\* ------------------------------------------------------ write sources
\* A source observable is cold: every subscription replays its script, one
\* event per step.  A positive entry is a chunk, SrcComplete the completion
\* and SrcFail the failure of the source.
SrcComplete == 0
SrcFail == -1
Scripts == << <<1, SrcComplete>>, <<1, SrcFail>>, <<1, 2, SrcComplete>>, <<2, 1, SrcFail>> >>
\* The one-chunk sources, and the two-chunk sources used where the order of
\* the chunks matters.
ShortScripts == {1, 2}
LongScripts == {3, 4}
SrcError == [cls |-> "Error", message |-> "source failed"]
StreamTypeError == [cls |-> "TypeError", message |-> "stream is closing, closed, errored or released"]
WriteRejections == {PlainError, NonError}

\* ------------------------------------------------------- writable sink
\* An operation queued on a writable: dead when the writer that issued it had
\* already released its lock (the call then rejects and never reaches the
\* sink).
SinkOp(op, by, chunk, dead) == [op |-> op, by |-> by, chunk |-> chunk, dead |-> dead]
\* writer.abort(reason) as a queued operation.
AbortOp(by, reason, dead) == [op |-> "abort", by |-> by, chunk |-> 0, dead |-> dead, reason |-> reason]

\* writer.abort(reason) errors a writable stream at once; its promise
\* settles later.
AbortNow(st, s, dead) ==
  IF ~dead /\ st[s] = "writable" THEN [st EXCEPT ![s] = "errored"] ELSE st

\* ------------------------------------------------------- write driver
\* subscribeToWritable's catch: the SerialError it builds from a failed
\* writer.write().
WriteCatch(e) ==
  SerialError("WRITE_FAILED", <<"Failed to write to stream", e.message>>, ToError(e))

\* writeStream() that does not cancel the previous write subscription.
WriteStream_NoCancel(w, sc) ==
  /\ Fresh(ws, w)
  /\ IF ~isOpen \/ port = NoPort
     THEN /\ ws' = [ws EXCEPT ![w].st = "thrown", ![w].thrown = PortNotOpen("writable")]
          /\ UNCHANGED <<writeSubscription, wlock>>
     ELSE IF Writable(port) = NoStream
     THEN /\ ws' = [ws EXCEPT ![w].st = "thrown", ![w].thrown = PortNotOpen("writable")]
          /\ UNCHANGED <<writeSubscription, wlock>>
     ELSE LET s == Writable(port)
          IN IF wlock[s] # 0
             THEN /\ ws' = [ws EXCEPT ![w].st = "thrown", ![w].thrown = LockedTypeError]
                  /\ UNCHANGED <<writeSubscription, wlock>>
             ELSE /\ ws' = [ws EXCEPT ![w].st = "created", ![w].src = sc, ![w].strm = s,
                                      ![w].dsub = "active", ![w].dpos = 1]
                  /\ wlock' = [wlock EXCEPT ![s] = DrvHolder(w)]
                  /\ writeSubscription' = RawHandle(w)
  /\ UNCHANGED <<port, isOpen, readSubscription, native, cur, rlock, sinkState, sinkQ,
                 written, pulled, conn, disc, rd, wr, helpers>>

\* writeStream() whose guard tests the stored handle but not isOpen.
WriteStream_GuardPortOnly(w, sc) ==
  /\ Fresh(ws, w)
  /\ IF port = NoPort
     THEN /\ ws' = [ws EXCEPT ![w].st = "thrown", ![w].thrown = PortNotOpen("writable")]
          /\ UNCHANGED <<writeSubscription, wlock>>
     ELSE IF Writable(port) = NoStream
     THEN /\ ws' = [ws EXCEPT ![w].st = "thrown", ![w].thrown = PortNotOpen("writable")]
          /\ UNCHANGED <<writeSubscription, wlock>>
     ELSE LET h == writeSubscription
              s == Writable(port)
              ws1 == WsAfterUnsub(ws, h)
              wl1 == IF h = NoHandle THEN wlock ELSE ReleaseW(wlock, DrvHolder(h.drv))
          IN IF wl1[s] # 0
             THEN /\ ws' = [ws1 EXCEPT ![w].st = "thrown", ![w].thrown = LockedTypeError]
                  /\ wlock' = wl1
                  /\ UNCHANGED writeSubscription
             ELSE /\ ws' = [ws1 EXCEPT ![w].st = "created", ![w].src = sc, ![w].strm = s,
                                       ![w].dsub = "active", ![w].dpos = 1]
                  /\ wlock' = [wl1 EXCEPT ![s] = DrvHolder(w)]
                  /\ writeSubscription' = RawHandle(w)
  /\ UNCHANGED <<port, isOpen, readSubscription, native, cur, rlock, sinkState, sinkQ,
                 written, pulled, conn, disc, rd, wr, helpers>>

\* writeStream(data$): guard, teardown of the previous write subscription,
\* then subscribeToWritable(data$, this.port.writable), whose getWriter()
\* throws on a locked stream.
WriteStream(w, sc) ==
  /\ Fresh(ws, w)
  /\ IF ~isOpen \/ port = NoPort
     THEN /\ ws' = [ws EXCEPT ![w].st = "thrown", ![w].thrown = PortNotOpen("writable")]
          /\ UNCHANGED <<writeSubscription, wlock>>
     ELSE IF Writable(port) = NoStream
     THEN /\ ws' = [ws EXCEPT ![w].st = "thrown", ![w].thrown = PortNotOpen("writable")]
          /\ UNCHANGED <<writeSubscription, wlock>>
     ELSE LET h == writeSubscription
              s == Writable(port)
              ws1 == WsAfterUnsub(ws, h)
              wl1 == IF h = NoHandle THEN wlock ELSE ReleaseW(wlock, DrvHolder(h.drv))
          IN IF wl1[s] # 0
             THEN /\ ws' = [ws1 EXCEPT ![w].st = "thrown", ![w].thrown = LockedTypeError]
                  /\ wlock' = wl1
                  /\ UNCHANGED writeSubscription
             ELSE /\ ws' = [ws1 EXCEPT ![w].st = "created", ![w].src = sc, ![w].strm = s,
                                       ![w].dsub = "active", ![w].dpos = 1]
                  /\ wlock' = [wl1 EXCEPT ![s] = DrvHolder(w)]
                  /\ writeSubscription' = RawHandle(w)
  /\ UNCHANGED <<port, isOpen, readSubscription, native, cur, rlock, sinkState, sinkQ,
                 written, pulled, conn, disc, rd, wr, helpers>>

\* A driver whose chunk overtakes the writes that are still pending.
DriverNext_Overtakes(w) ==
  /\ ws[w].dsub = "active"
  /\ ws[w].dpos <= Len(Scripts[ws[w].src])
  /\ Scripts[ws[w].src][ws[w].dpos] > 0
  /\ sinkQ' = [sinkQ EXCEPT ![ws[w].strm] =
                 <<SinkOp("write", DrvHolder(w), Scripts[ws[w].src][ws[w].dpos], ws[w].released)>> \o @]
  /\ ws' = [ws EXCEPT ![w].dpos = @ + 1]
  /\ UNCHANGED <<client, native, cur, rlock, wlock, sinkState, written, pulled, conn, disc, rd, wr, helpers>>

\* The source delivers a chunk to the driver: next calls writer.write(chunk).
DriverNext(w) ==
  /\ ws[w].dsub = "active"
  /\ ws[w].dpos <= Len(Scripts[ws[w].src])
  /\ Scripts[ws[w].src][ws[w].dpos] > 0
  /\ sinkQ' = [sinkQ EXCEPT ![ws[w].strm] =
                 Append(@, SinkOp("write", DrvHolder(w), Scripts[ws[w].src][ws[w].dpos], ws[w].released))]
  /\ ws' = [ws EXCEPT ![w].dpos = @ + 1]
  /\ UNCHANGED <<client, native, cur, rlock, wlock, sinkState, written, pulled, conn, disc, rd, wr, helpers>>

\* The source completes for the driver: complete calls writer.close().
DriverComplete(w) ==
  /\ ws[w].dsub = "active"
  /\ ws[w].dpos <= Len(Scripts[ws[w].src])
  /\ Scripts[ws[w].src][ws[w].dpos] = SrcComplete
  /\ sinkQ' = [sinkQ EXCEPT ![ws[w].strm] = Append(@, SinkOp("close", DrvHolder(w), 0, ws[w].released))]
  /\ ws' = [ws EXCEPT ![w].dsub = "closed", ![w].dpos = @ + 1, ![w].fin = "closing"]
  /\ UNCHANGED <<client, native, cur, rlock, wlock, sinkState, written, pulled, conn, disc, rd, wr, helpers>>

\* The source fails for the driver: errorHandler calls writer.abort(error).
DriverError(w) ==
  /\ ws[w].dsub = "active"
  /\ ws[w].dpos <= Len(Scripts[ws[w].src])
  /\ Scripts[ws[w].src][ws[w].dpos] = SrcFail
  /\ sinkState' = AbortNow(sinkState, ws[w].strm, ws[w].released)
  /\ sinkQ' = [sinkQ EXCEPT ![ws[w].strm] = Append(@, AbortOp(DrvHolder(w), SrcError, ws[w].released))]
  /\ ws' = [ws EXCEPT ![w].dsub = "closed", ![w].dpos = @ + 1, ![w].fin = "aborting"]
  /\ UNCHANGED <<client, native, cur, rlock, wlock, written, pulled, conn, disc, rd, wr, helpers>>

\* A driver whose catch of a failed write reports the error but leaves the
\* subscription to the source in place.
WsAfterSettle_NoUnsubscribe(wsf, op, ok, e) ==
  IF op.by > MaxWS THEN wsf
  ELSE IF op.op = "write"
       THEN IF ok THEN wsf
            ELSE [wsf EXCEPT ![op.by].failed = WriteCatch(e)]
       ELSE [wsf EXCEPT ![op.by].released = TRUE, ![op.by].fin = "done"]

\* What the callbacks attached to a settled sink operation do.  A driver's
\* failed write runs the catch of next: unsubscribe, release the lock, build
\* the WRITE_FAILED error and hand it to errorHandler, whose writer.abort()
\* rejects on the released writer and is swallowed.  A driver's close or abort
\* runs the finally: release the lock.
WsAfterSettle(wsf, op, ok, e) ==
  IF op.by > MaxWS THEN wsf
  ELSE IF op.op = "write"
       THEN IF ok THEN wsf
            ELSE [wsf EXCEPT ![op.by].dsub = IF @ = "active" THEN "closed" ELSE @,
                             ![op.by].released = TRUE,
                             ![op.by].failed = WriteCatch(e)]
       ELSE [wsf EXCEPT ![op.by].released = TRUE, ![op.by].fin = "done"]

\* A catch of write(data) that rethrows what the platform rejected with.
SingleWriteCatch_Rethrows(e) == e

\* write(data)'s catch.
SingleWriteCatch(e) ==
  SerialError("WRITE_FAILED", <<"Failed to write data", e.message>>, ToError(e))

WrAfterSettle(wrf, op, ok, e) ==
  IF op.by <= MaxWS THEN wrf
  ELSE [wrf EXCEPT ![op.by - MaxWS].st = "done",
                   ![op.by - MaxWS].rej = e,
                   ![op.by - MaxWS].notifs =
                       IF ok THEN <<Next0, Complete>> ELSE <<ErrorN(SingleWriteCatch(e))>>]

\* A write(data) that releases its writer only in its then.
WlockAfterSettle_NoCatchRelease(wl, op, ok) ==
  IF (op.by <= MaxWS /\ op.op = "write" /\ ok) \/ (op.by > MaxWS /\ ~ok) THEN wl ELSE ReleaseW(wl, op.by)

\* A driver whose complete and error handlers release the lock only when the
\* close or abort succeeded.
WlockAfterSettle_NoFinally(wl, op, ok) ==
  IF op.by <= MaxWS /\ (op.op = "write" \/ ~ok) THEN wl ELSE ReleaseW(wl, op.by)

WlockAfterSettle(wl, op, ok) ==
  IF op.by <= MaxWS /\ op.op = "write" /\ ok THEN wl ELSE ReleaseW(wl, op.by)

\* A write or close can only succeed on a writable stream, through a writer
\* that still holds its lock.
MustReject(s) == Head(sinkQ[s]).dead \/ (Head(sinkQ[s]).op # "abort" /\ sinkState[s] # "writable")

\* The oldest pending operation of the writable s succeeds.
SinkResolve(s) ==
  /\ sinkQ[s] # <<>>
  /\ ~MustReject(s)
  /\ LET op == Head(sinkQ[s]) IN
       /\ written' = IF op.op = "write"
                    THEN [written EXCEPT ![s] = Append(@, [by |-> op.by, chunk |-> op.chunk])]
                    ELSE written
       /\ sinkState' = IF op.op = "close" THEN [sinkState EXCEPT ![s] = "closed"] ELSE sinkState
       /\ ws' = WsAfterSettle(ws, op, TRUE, NoError)
       /\ wr' = WrAfterSettle(wr, op, TRUE, NoError)
       /\ wlock' = WlockAfterSettle(wlock, op, TRUE)
  /\ sinkQ' = [sinkQ EXCEPT ![s] = Tail(@)]
  /\ UNCHANGED <<client, native, cur, rlock, pulled, conn, disc, rd, helpers>>

\* The oldest pending operation of the writable s fails with e; a failing
\* write or close leaves the stream errored.
SinkReject(s, e) ==
  /\ sinkQ[s] # <<>>
  /\ IF MustReject(s) THEN e = StreamTypeError ELSE e \in WriteRejections
  /\ LET op == Head(sinkQ[s]) IN
       /\ sinkState' = IF ~MustReject(s) /\ op.op # "abort"
                       THEN [sinkState EXCEPT ![s] = "errored"] ELSE sinkState
       /\ ws' = WsAfterSettle(ws, op, FALSE, e)
       /\ wr' = WrAfterSettle(wr, op, FALSE, e)
       /\ wlock' = WlockAfterSettle(wlock, op, FALSE)
  /\ sinkQ' = [sinkQ EXCEPT ![s] = Tail(@)]
  /\ UNCHANGED <<client, native, cur, rlock, written, pulled, conn, disc, rd, helpers>>

\* --------------------------------------- writeStream's returned observable
\* Subscribing to the observable returned by writeStream(): it wraps the
\* client's current write subscription and subscribes to data$ a second
\* time, with complete and error handlers only.
WriteStreamSubscribe(w) ==
  /\ ws[w].st = "created"
  /\ IF writeSubscription = NoHandle
     THEN /\ ws' = [ws EXCEPT ![w].st = "subscribed", ![w].notifs =
                      <<ErrorN(SerialError("WRITE_FAILED", <<"Write subscription is not available">>, NoError))>>]
          /\ UNCHANGED writeSubscription
     ELSE /\ ws' = [ws EXCEPT ![w].st = "subscribed", ![w].tsub = "active", ![w].tpos = 1]
          /\ writeSubscription' = Wrap(writeSubscription, w)
  /\ UNCHANGED <<port, isOpen, readSubscription, platform, conn, disc, rd, wr, helpers>>

\* The consumer unsubscribes from the observable returned by
\* writeStream(): the function given to new Observable returns no teardown,
\* so the subscriber is closed and nothing else happens.
WriteStreamUnsubscribe(w) ==
  /\ ws[w].st = "subscribed"
  /\ ~ws[w].unsub
  /\ ~Closed(ws[w].notifs)
  /\ ws' = [ws EXCEPT ![w].unsub = TRUE]
  /\ UNCHANGED <<client, platform, conn, disc, rd, wr, helpers>>

\* The second subscription receives a chunk: it has no next handler.
TrackerNext(w) ==
  /\ ws[w].tsub = "active"
  /\ ws[w].tpos <= Len(Scripts[ws[w].src])
  /\ Scripts[ws[w].src][ws[w].tpos] > 0
  /\ ws' = [ws EXCEPT ![w].tpos = @ + 1]
  /\ UNCHANGED <<client, platform, conn, disc, rd, wr, helpers>>

\* The terminal handlers of the second subscription: tear down whatever
\* write subscription the client holds now, clear it, then notify the
\* subscriber.
TrackerTerminal(w, n) ==
  /\ LET ws1 == WsAfterUnsub([ws EXCEPT ![w].tsub = "closed", ![w].tpos = @ + 1], writeSubscription)
     IN ws' = [ws1 EXCEPT ![w].notifs = WsDeliver(ws1[w], n)]
  /\ wlock' = IF writeSubscription = NoHandle THEN wlock
              ELSE ReleaseW(wlock, DrvHolder(writeSubscription.drv))
  /\ writeSubscription' = NoHandle
  /\ UNCHANGED <<port, isOpen, readSubscription, native, cur, rlock, sinkState, sinkQ,
                 written, pulled, conn, disc, rd, wr, helpers>>

TrackerComplete(w) ==
  /\ ws[w].tsub = "active"
  /\ ws[w].tpos <= Len(Scripts[ws[w].src])
  /\ Scripts[ws[w].src][ws[w].tpos] = SrcComplete
  /\ TrackerTerminal(w, Complete)

TrackerError(w) ==
  /\ ws[w].tsub = "active"
  /\ ws[w].tpos <= Len(Scripts[ws[w].src])
  /\ Scripts[ws[w].src][ws[w].tpos] = SrcFail
  /\ TrackerTerminal(w, ErrorN(SrcError))

\* ------------------------------------------------------- write(chunk)
\* write(data) subscribed: the body of its defer.  A throw inside defer
\* (the guard, or getWriter() on a locked stream) is reported to the
\* subscriber.
Write(x, c) ==
  /\ Fresh(wr, x)
  /\ IF ~isOpen \/ port = NoPort
     THEN /\ wr' = [wr EXCEPT ![x].st = "done", ![x].notifs = <<ErrorN(PortNotOpen("writable"))>>]
          /\ UNCHANGED <<wlock, sinkQ>>
     ELSE IF Writable(port) = NoStream
     THEN /\ wr' = [wr EXCEPT ![x].st = "done", ![x].notifs = <<ErrorN(PortNotOpen("writable"))>>]
          /\ UNCHANGED <<wlock, sinkQ>>
     ELSE IF wlock[Writable(port)] # 0
     THEN /\ wr' = [wr EXCEPT ![x].st = "done", ![x].notifs = <<ErrorN(LockedTypeError)>>]
          /\ UNCHANGED <<wlock, sinkQ>>
     ELSE /\ wr' = [wr EXCEPT ![x].st = "writing", ![x].strm = Writable(port)]
          /\ wlock' = [wlock EXCEPT ![Writable(port)] = WrHolder(x)]
          /\ sinkQ' = [sinkQ EXCEPT ![Writable(port)] = Append(@, SinkOp("write", WrHolder(x), c, FALSE))]
  /\ UNCHANGED <<client, native, cur, rlock, sinkState, written, pulled, conn, disc, rd, ws, helpers>>

\* ----------------------------------------------- observableToWritable
\* start() of the underlying sink: it returns at once while the variable
\* stream is unset, else takes the stream's writer and subscribes to the
\* source.
StartSink(s) ==
  IF ~s.stream THEN s
  ELSE [s EXCEPT !.writer = TRUE, !.locked = TRUE, !.subscription = "active"]

\* abort(reason) of the underlying sink.
AbortSink(s) ==
  LET u == IF s.subscription # "none" THEN [s EXCEPT !.subscription = "none"] ELSE s
  IN IF u.writer THEN [u EXCEPT !.writer = FALSE, !.locked = FALSE] ELSE u

\* observableToWritable(observable): new WritableStream(sink) performs the
\* sink's start() during construction, before the assignment to the
\* variable stream takes place.
ObservableToWritable(k, sc) ==
  /\ Fresh(o2w, k)
  /\ o2w' = [o2w EXCEPT ![k] =
               [StartSink([NoO2w EXCEPT !.st = "created", !.src = sc])
                  EXCEPT !.stream = TRUE]]
  /\ UNCHANGED <<client, platform, conn, disc, rd, ws, wr, options, built, rp>>

\* The caller takes the writer of the returned stream.
SinkGetWriter(k) ==
  /\ o2w[k].st \in {"created", "aborted"}
  /\ ~o2w[k].locked
  /\ o2w' = [o2w EXCEPT ![k].locked = TRUE]
  /\ UNCHANGED <<client, platform, conn, disc, rd, ws, wr, options, built, rp>>

\* The caller releases a writer it took.
SinkReleaseLock(k) ==
  /\ o2w[k].st \in {"created", "aborted"}
  /\ o2w[k].locked /\ ~o2w[k].writer
  /\ o2w' = [o2w EXCEPT ![k].locked = FALSE]
  /\ UNCHANGED <<client, platform, conn, disc, rd, ws, wr, options, built, rp>>

\* stream.abort(reason) on the returned stream, which the platform accepts
\* only while the stream is unlocked: the sink's abort() runs.
SinkAbort(k) ==
  /\ o2w[k].st = "created"
  /\ ~o2w[k].locked
  /\ o2w' = [o2w EXCEPT ![k] = [AbortSink(o2w[k]) EXCEPT !.st = "aborted"]]
  /\ UNCHANGED <<client, platform, conn, disc, rd, ws, wr, options, built, rp>>

\* ------------------------------------------------------ specification
\* The chunk handed to write(data).
Chunks == {3}

Next ==
  \/ CallBuildRequestOptions
  \/ \E k \in RpIds : RequestPort(k)
  \/ \E k \in RpIds, p \in Ports : PortChosen(k, p)
  \/ \E k \in RpIds, e \in Rejections \cup {NotFoundError, InvalidStateError} : PortRefused(k, e)
  \/ \E k \in SinkIds, sc \in DOMAIN Scripts : ObservableToWritable(k, sc)
  \/ \E k \in SinkIds : SinkGetWriter(k)
  \/ \E k \in SinkIds : SinkReleaseLock(k)
  \/ \E k \in SinkIds : SinkAbort(k)
  \/ \E w \in WsIds : WriteStreamUnsubscribe(w)
  \/ \E i \in ConnIds, p \in Ports \cup {NoPort} : Connect(i, p)
  \/ \E i \in ConnIds : ConnectSubscribe(i)
  \/ \E i \in ConnIds, p \in Ports : RequestPortResolve(i, p)
  \/ \E i \in ConnIds, e \in {NotFoundError, PlainError, NonError} : RequestPortReject(i, e)
  \/ \E i \in ConnIds : OpenResolve(i)
  \/ \E i \in ConnIds, e \in Rejections \cup {InvalidStateError} : OpenReject(i, e)
  \/ \E d \in DiscIds : Disconnect(d)
  \/ \E d \in DiscIds : CloseResolve(d)
  \/ \E d \in DiscIds, e \in Rejections \cup {InvalidStateError} : CloseReject(d, e)
  \/ \E r \in RdIds : GetReadStream(r)
  \/ \E r \in RdIds : ReadSubscribe(r)
  \/ \E r \in RdIds : ReadChunk(r)
  \/ \E r \in RdIds : ReadDone(r)
  \/ \E r \in RdIds, e \in WriteRejections : ReadFail(r, e)
  \/ \E r \in RdIds : ReadUnsubscribe(r)
  \/ \E r \in RdIds : ReadUnsubscribeAgain(r)
  \/ \E w \in WsIds, sc \in DOMAIN Scripts : WriteStream(w, sc)
  \/ \E w \in WsIds : WriteStreamSubscribe(w)
  \/ \E w \in WsIds : DriverNext(w)
  \/ \E w \in WsIds : DriverComplete(w)
  \/ \E w \in WsIds : DriverError(w)
  \/ \E w \in WsIds : TrackerNext(w)
  \/ \E w \in WsIds : TrackerComplete(w)
  \/ \E w \in WsIds : TrackerError(w)
  \/ \E s \in Streams : SinkResolve(s)
  \/ \E s \in Streams, e \in WriteRejections \cup {StreamTypeError} : SinkReject(s, e)
  \/ \E x \in WrIds, c \in Chunks : Write(x, c)

Spec == Init /\ [][Next]_vars

\* The connection life cycle alone: connect(), disconnect() and the
\* settlements of requestPort, open and close.
ConnNext ==
  \/ \E i \in ConnIds, p \in Ports \cup {NoPort} : Connect(i, p)
  \/ \E i \in ConnIds : ConnectSubscribe(i)
  \/ \E i \in ConnIds, p \in Ports : RequestPortResolve(i, p)
  \/ \E i \in ConnIds, e \in {NotFoundError, PlainError, NonError} : RequestPortReject(i, e)
  \/ \E i \in ConnIds : OpenResolve(i)
  \/ \E i \in ConnIds, e \in Rejections \cup {InvalidStateError} : OpenReject(i, e)
  \/ \E d \in DiscIds : Disconnect(d)
  \/ \E d \in DiscIds : CloseResolve(d)
  \/ \E d \in DiscIds, e \in Rejections \cup {InvalidStateError} : CloseReject(d, e)

ConnSpec == Init /\ [][ConnNext]_vars

O2wNext ==
  \/ \E k \in SinkIds, sc \in DOMAIN Scripts : ObservableToWritable(k, sc)
  \/ \E k \in SinkIds : SinkGetWriter(k)
  \/ \E k \in SinkIds : SinkReleaseLock(k)
  \/ \E k \in SinkIds : SinkAbort(k)

O2wSpec == Init /\ [][O2wNext]_vars

\* The options a client is constructed with: no filters, a filter that
\* passes validation, a filter that does not.
ClientOptions ==
  {Options(NoFilters),
   Options(Array(<<[usbVendorId |-> Integer(1), usbProductId |-> Undefined]>>)),
   Options(Array(<<[usbVendorId |-> Integer(0), usbProductId |-> Undefined]>>))}

PortInit ==
  /\ port = NoPort
  /\ isOpen = FALSE
  /\ readSubscription = NoHandle
  /\ writeSubscription = NoHandle
  /\ native = [p \in Ports |-> "closed"]
  /\ cur = [p \in Ports |-> NoStream]
  /\ rlock = [s \in Streams |-> 0]
  /\ wlock = [s \in Streams |-> 0]
  /\ sinkState = [s \in Streams |-> "writable"]
  /\ sinkQ = [s \in Streams |-> <<>>]
  /\ written = [s \in Streams |-> <<>>]
  /\ pulled = [s \in Streams |-> 0]
  /\ conn = [i \in ConnIds |-> NoConn]
  /\ disc = [d \in DiscIds |-> NoDisc]
  /\ rd = [r \in RdIds |-> NoRd]
  /\ ws = [w \in WsIds |-> NoWs]
  /\ wr = [x \in WrIds |-> NoWr]
  /\ options \in ClientOptions
  /\ built = NotBuilt
  /\ rp = [k \in RpIds |-> NoRp]
  /\ o2w = [k \in SinkIds |-> NoO2w]

\* requestPort() beside the steps of connect() and disconnect().
PortNext ==
  \/ ConnNext
  \/ \E k \in RpIds : RequestPort(k)
  \/ \E k \in RpIds, p \in Ports : PortChosen(k, p)
  \/ \E k \in RpIds, e \in Rejections \cup {NotFoundError, InvalidStateError} : PortRefused(k, e)

PortSpec == PortInit /\ [][PortNext]_vars

\* The connection steps the stream specifications share: connect(port) with
\* a given port, disconnect(), and the settlements of open and close.
LinkNext ==
  \/ \E i \in 1..LinkMaxConnect, p \in 1..LinkMaxPort : Connect(i, p)
  \/ \E i \in ConnIds : ConnectSubscribe(i)
  \/ \E i \in ConnIds : OpenResolve(i)
  \/ \E i \in ConnIds, e \in {PlainError, InvalidStateError} : OpenReject(i, e)
  \/ \E d \in 1..LinkMaxDisconnect : Disconnect(d)
  \/ \E d \in DiscIds : CloseResolve(d)
  \/ \E d \in DiscIds, e \in {PlainError, InvalidStateError} : CloseReject(d, e)

\* The read path over the connection life cycle.
ReadNext ==
  \/ LinkNext
  \/ \E r \in RdIds : GetReadStream(r)
  \/ \E r \in RdIds : ReadSubscribe(r)
  \/ \E r \in RdIds : ReadChunk(r)
  \/ \E r \in RdIds : ReadDone(r)
  \/ \E r \in RdIds, e \in WriteRejections : ReadFail(r, e)
  \/ \E r \in RdIds : ReadUnsubscribe(r)
  \/ \E r \in RdIds : ReadUnsubscribeAgain(r)

ReadSpec == Init /\ [][ReadNext]_vars

\* The write path over the connection life cycle.
WriteNext ==
  \/ LinkNext
  \/ \E w \in WsIds, sc \in ShortScripts : WriteStream(w, sc)
  \/ \E w \in WsIds : WriteStreamSubscribe(w)
  \/ \E w \in WsIds : DriverNext(w)
  \/ \E w \in WsIds : DriverComplete(w)
  \/ \E w \in WsIds : DriverError(w)
  \/ \E w \in WsIds : TrackerNext(w)
  \/ \E w \in WsIds : TrackerComplete(w)
  \/ \E w \in WsIds : TrackerError(w)
  \/ \E s \in Streams : SinkResolve(s)
  \/ \E s \in Streams, e \in WriteRejections \cup {StreamTypeError} : SinkReject(s, e)

WriteSpec == Init /\ [][WriteNext]_vars

\* The write path with consumers that unsubscribe from the observables
\* writeStream() returned.
UnsubNext ==
  \/ WriteNext
  \/ \E w \in WsIds : WriteStreamUnsubscribe(w)

UnsubSpec == Init /\ [][UnsubNext]_vars

\* The write driver alone (subscribeToWritable as writeStream() starts it and
\* as writeStream() and disconnect() tear it down), on two-chunk sources.
BridgeNext ==
  \/ LinkNext
  \/ \E w \in WsIds, sc \in LongScripts : WriteStream(w, sc)
  \/ \E w \in WsIds : DriverNext(w)
  \/ \E w \in WsIds : DriverComplete(w)
  \/ \E w \in WsIds : DriverError(w)
  \/ \E s \in Streams : SinkResolve(s)
  \/ \E s \in Streams, e \in WriteRejections \cup {StreamTypeError} : SinkReject(s, e)

BridgeSpec == Init /\ [][BridgeNext]_vars

\* Every operation queued on a writable settles: the platform resolves or
\* rejects the promise of each write, close and abort.
SinkSettles(s) ==
  SinkResolve(s) \/ \E e \in WriteRejections \cup {StreamTypeError} : SinkReject(s, e)

FairBridgeSpec == BridgeSpec /\ \A s \in Streams : WF_vars(SinkSettles(s))

\* Both bridges with every way their subscriptions end and are torn down,
\* once and again.
TeardownNext ==
  \/ LinkNext
  \/ \E r \in 1..TdMaxRead : GetReadStream(r)
  \/ \E r \in RdIds : ReadSubscribe(r)
  \/ \E r \in RdIds : ReadDone(r)
  \/ \E r \in RdIds, e \in WriteRejections : ReadFail(r, e)
  \/ \E r \in RdIds : ReadUnsubscribe(r)
  \/ \E r \in RdIds : ReadUnsubscribeAgain(r)
  \/ \E w \in 1..TdMaxWS, sc \in ShortScripts : WriteStream(w, sc)
  \/ \E w \in WsIds : DriverNext(w)
  \/ \E w \in WsIds : DriverComplete(w)
  \/ \E w \in WsIds : DriverError(w)
  \/ \E s \in Streams : SinkResolve(s)
  \/ \E s \in Streams, e \in WriteRejections \cup {StreamTypeError} : SinkReject(s, e)

TeardownSpec == Init /\ [][TeardownNext]_vars

\* The filters a caller may configure: up to MaxFilters filters whose fields
\* are absent, at and around both ends of the valid range, or not integers.
MaxFilters == 2
IdValues == {Undefined, Integer(-1), Integer(0), Integer(1), Integer(MaxId), Integer(MaxId + 1), Fraction}
Filters == [usbVendorId : IdValues, usbProductId : IdValues]
FilterLists == {Array(items) : items \in UNION {[1..n -> Filters] : n \in 0..MaxFilters}}
OptionInputs == {NoOptions} \cup {Options(fl) : fl \in FilterLists \cup {NoFilters}}

\* buildRequestOptions() applied to each input.
FilterInit ==
  /\ port = NoPort
  /\ isOpen = FALSE
  /\ readSubscription = NoHandle
  /\ writeSubscription = NoHandle
  /\ native = [p \in Ports |-> "closed"]
  /\ cur = [p \in Ports |-> NoStream]
  /\ rlock = [s \in Streams |-> 0]
  /\ wlock = [s \in Streams |-> 0]
  /\ sinkState = [s \in Streams |-> "writable"]
  /\ sinkQ = [s \in Streams |-> <<>>]
  /\ written = [s \in Streams |-> <<>>]
  /\ pulled = [s \in Streams |-> 0]
  /\ conn = [i \in ConnIds |-> NoConn]
  /\ disc = [d \in DiscIds |-> NoDisc]
  /\ rd = [r \in RdIds |-> NoRd]
  /\ ws = [w \in WsIds |-> NoWs]
  /\ wr = [x \in WrIds |-> NoWr]
  /\ options \in OptionInputs
  /\ built = NotBuilt
  /\ rp = [k \in RpIds |-> NoRp]
  /\ o2w = [k \in SinkIds |-> NoO2w]

FilterNext == CallBuildRequestOptions

FilterSpec == FilterInit /\ [][FilterNext]_vars

\* The entry points of the three stream operations, with the steps that
\* acquire and release the locks they take.
GuardNext ==
  \/ LinkNext
  \/ \E r \in RdIds : GetReadStream(r)
  \/ \E r \in RdIds : ReadSubscribe(r)
  \/ \E r \in RdIds : ReadUnsubscribe(r)
  \/ \E w \in WsIds, sc \in ShortScripts : WriteStream(w, sc)
  \/ \E w \in WsIds : WriteStreamSubscribe(w)
  \/ \E x \in WrIds, c \in Chunks : Write(x, c)
  \/ \E s \in Streams : SinkResolve(s)
  \/ \E s \in Streams, e \in WriteRejections \cup {StreamTypeError} : SinkReject(s, e)

GuardSpec == Init /\ [][GuardNext]_vars

\* =================================================================
\* Claims
\* =================================================================

\* The platform still counts a port as open while its close() is pending.
NativeOpen(p) == native[p] \in {"opened", "closing"}

\* C1: in every reachable state, isOpen = true implies that the stored port
\* handle is non-null and that this handle is natively open.
C1_OpenImpliesNativeHandle ==
  isOpen => (port # NoPort /\ NativeOpen(port))

\* A step in which the observable i returned by connect() is created.
ConnectCalled(i) == conn[i].st = "unused" /\ conn'[i].st # "unused"
\* A step in which the observable i of a connect() made while open is subscribed.
GuardedSubscribed(i) == conn[i].guarded /\ conn[i].st = "created" /\ conn'[i] # conn[i]

\* C2: connect() called while the client is open yields an observable that
\* fails with PORT_ALREADY_OPEN; neither the call nor the subscription
\* invokes the platform open call or changes the stored handle or isOpen.
C2_ConnectWhileOpen ==
  [][\A i \in ConnIds :
       /\ (ConnectCalled(i) /\ isOpen) =>
            (conn'[i].guarded /\ UNCHANGED <<client, platform>>)
       /\ GuardedSubscribed(i) =>
            /\ conn'[i].st = "done"
            /\ Len(conn'[i].notifs) = 1
            /\ conn'[i].notifs[1].n = "error"
            /\ conn'[i].notifs[1].e.cls = "SerialError"
            /\ conn'[i].notifs[1].e.code = "PORT_ALREADY_OPEN"
            /\ conn'[i].sel = NoPort
            /\ UNCHANGED <<client, platform>>]_vars

C2_Witness ==
  \E i \in ConnIds : conn[i].guarded /\ conn[i].st = "done" /\ isOpen /\ port # NoPort

\* A step in which the open() call of the attempt i is rejected.
OpenRejected(i) == conn[i].st = "opening" /\ conn'[i].st = "done" /\ conn'[i].rej # NoError

\* C3: when the platform open call of a connect attempt fails, the client
\* is left with no stored handle and isOpen = false, and the subscriber
\* receives exactly one error: the rejection itself when it is a
\* SerialError, otherwise PORT_OPEN_FAILED whose cause is the rejection (made
\* an Error when it was not one).
C3_OpenFailure ==
  [][\A i \in ConnIds : OpenRejected(i) =>
       /\ port' = NoPort
       /\ isOpen' = FALSE
       /\ Len(conn'[i].notifs) = 1
       /\ conn'[i].notifs[1].n = "error"
       /\ LET r == conn'[i].rej
              x == conn'[i].notifs[1].e
          IN IF r.cls = "SerialError" THEN x = r
             ELSE /\ x.cls = "SerialError"
                  /\ x.code = "PORT_OPEN_FAILED"
                  /\ x.originalError = (IF IsError(r) THEN r ELSE [cls |-> "Error", message |-> r.message])]_vars

C3_Witness ==
  /\ \E i \in ConnIds : conn[i].st = "done" /\ conn[i].rej = NonError
  /\ \E i \in ConnIds : conn[i].st = "done" /\ conn[i].rej = ForeignSerialError
  /\ port = NoPort /\ ~isOpen

\* A step in which the close() call of the disconnect d settles.
CloseSettled(d) == disc[d].st = "closing" /\ disc'[d].st = "done"

\* C4: when the close() of a disconnect settles, the client has no stored
\* handle and isOpen = false either way; the subscriber receives a
\* successful completion when close resolved and CONNECTION_LOST wrapping
\* the cause when it rejected.
C4_DisconnectSettles ==
  [][\A d \in DiscIds : CloseSettled(d) =>
       /\ port' = NoPort
       /\ isOpen' = FALSE
       /\ LET r == disc'[d].rej
              log == disc'[d].notifs
          IN IF r = NoError THEN log = <<Next0, Complete>>
             ELSE /\ Len(log) = 1
                  /\ log[1].n = "error"
                  /\ log[1].e.cls = "SerialError"
                  /\ log[1].e.code = "CONNECTION_LOST"
                  /\ log[1].e.originalError = (IF IsError(r) THEN r ELSE [cls |-> "Error", message |-> r.message])]_vars

C4_Witness ==
  /\ \E d \in DiscIds : disc[d].st = "done" /\ disc[d].rej = NonError
  /\ \E d \in DiscIds : disc[d].st = "done" /\ disc[d].prt # NoPort /\ disc[d].rej = NoError
  /\ port = NoPort /\ ~isOpen

\* A step in which the read observable r is subscribed.
ReadSubscribed(r) == rd[r].st = "created" /\ rd'[r].st # "created"
\* The read subscription r holds a reader and its pump loop is running.
ReadActive(r) == rd[r].st = "pumping"

\* C5: subscribing to a new getReadStream() observable while an earlier read
\* subscription of the client is still active first terminates the earlier
\* one, so that at most one read subscription is active at any time.
C5_NewReadTerminatesEarlier ==
  [][\A r \in RdIds : ReadSubscribed(r) =>
       \A q \in RdIds \ {r} : ~ReadActive(q)']_vars

\* The write driver w holds a writer lock.
HoldsWriterLock(w) == \E s \in Streams : wlock[s] = DrvHolder(w)
ActiveDrivers == {w \in WsIds : ws[w].dsub = "active"}
LockingDrivers == {w \in WsIds : HoldsWriterLock(w)}
\* A step in which the call w of writeStream() passes its guard.
WriteStreamStarted(w) ==
  ws[w].st = "unused" /\ ws'[w].st # "unused" /\ ws'[w].thrown.cls # "SerialError"
\* A step in which the driver w hands a chunk to the writable s.
Forwards(w, s) ==
  /\ Len(sinkQ'[s]) = Len(sinkQ[s]) + 1
  /\ sinkQ'[s][Len(sinkQ'[s])].op = "write"
  /\ sinkQ'[s][Len(sinkQ'[s])].by = DrvHolder(w)

\* C6: a writeStream() call that passes its guard leaves every earlier write
\* driver torn down (unsubscribed from its source, its writer lock released)
\* before the new driver takes the writer lock; at no time are two drivers
\* subscribed to their sources or holding a writer lock, and a driver
\* forwards a chunk only while it holds the writer lock of that stream.
C6_SingleWriteDriver ==
  /\ [](Cardinality(ActiveDrivers) <= 1 /\ Cardinality(LockingDrivers) <= 1)
  /\ [][\A w \in WsIds : WriteStreamStarted(w) =>
          \A v \in WsIds \ {w} : ws'[v].dsub # "active" /\ ~HoldsWriterLock(v)']_vars
  /\ [][\A w \in WsIds, s \in Streams : Forwards(w, s) =>
          (wlock[s] = DrvHolder(w) /\ ActiveDrivers = {w})]_vars

\* The second writeStream() replaced a first driver that was still active:
\* nothing else (its own completion or failure, either tracker, a
\* disconnect) had torn the first one down.
C6_Witness ==
  /\ ws[2].dsub = "active" /\ HoldsWriterLock(2)
  /\ ws[1].dsub = "closed" /\ ws[1].released
  /\ ws[1].fin = "none" /\ ws[1].failed = NoError
  /\ ws[1].tsub = "active" /\ ws[1].notifs = <<Complete>>
  /\ ws[1].strm = ws[2].strm
  /\ \A d \in DiscIds : disc[d].st = "unused"

\* A step in which disconnect() calls port.close().
CloseCalled(d) == disc[d].st = "unused" /\ disc'[d].st = "closing"

\* C7: by the time disconnect() invokes the platform close call, no read
\* subscription of the client still holds the reader lock or is still pulling.
C7_NoReaderAtClose ==
  [][\A d \in DiscIds : CloseCalled(d) =>
       /\ \A r \in RdIds : ~ReadActive(r)'
       /\ \A s \in Streams : rlock'[s] = 0]_vars

IsPortNotOpen(e) == e.cls = "SerialError" /\ e.code = "PORT_NOT_OPEN"
Locks == <<rlock, wlock>>

\* C8: on a client that is not open, getReadStream() and writeStream() throw
\* PORT_NOT_OPEN and a subscribed write() fails with PORT_NOT_OPEN; no lock
\* is acquired, nothing is queued on a sink and the source passed to
\* writeStream() is not subscribed.
C8_NotOpenGuards ==
  [][~isOpen =>
       /\ \A r \in RdIds : (rd[r].st = "unused" /\ rd'[r].st # "unused") =>
            /\ rd'[r].st = "thrown" /\ IsPortNotOpen(rd'[r].thrown)
            /\ UNCHANGED <<client, platform>>
       /\ \A w \in WsIds : (ws[w].st = "unused" /\ ws'[w].st # "unused") =>
            /\ ws'[w].st = "thrown" /\ IsPortNotOpen(ws'[w].thrown)
            /\ ws'[w].dsub = "none" /\ ws'[w].tsub = "none"
            /\ UNCHANGED <<client, platform>>
       /\ \A x \in WrIds : (wr[x].st = "unused" /\ wr'[x].st # "unused") =>
            /\ wr'[x].st = "done"
            /\ Len(wr'[x].notifs) = 1
            /\ wr'[x].notifs[1].n = "error"
            /\ IsPortNotOpen(wr'[x].notifs[1].e)
            /\ UNCHANGED <<client, platform>>]_vars

\* All three operations have been refused on a client that had been open and
\* no longer is.
C8_Witness ==
  /\ ~isOpen
  /\ \E i \in ConnIds : conn[i].notifs = <<Next0, Complete>>
  /\ \E r \in RdIds : rd[r].st = "thrown"
  /\ \E w \in WsIds : ws[w].st = "thrown" /\ IsPortNotOpen(ws[w].thrown)
  /\ \E x \in WrIds : wr[x].st = "done" /\ Len(wr[x].notifs) = 1
                       /\ wr[x].notifs[1].n = "error" /\ IsPortNotOpen(wr[x].notifs[1].e)

\* C9: a failed write of a chunk during a writeStream() is surfaced to the
\* subscriber of the returned observable as its terminal notification, a
\* WRITE_FAILED error whose cause carries the thrown error: once the
\* returned observable has terminated, its log holds that error.
C9_WriteFailureSurfaced ==
  \A w \in WsIds : (ws[w].failed # NoError /\ ws[w].tsub = "closed") =>
     \E k \in 1..Len(ws[w].notifs) :
        ws[w].notifs[k].n = "error" /\ ws[w].notifs[k].e = ws[w].failed

Last(q) == q[Len(q)]

\* C10: the observable returned by writeStream(source) delivers exactly one
\* terminal notification: completion when the source completed, the
\* source's error when the source failed.
C10_TerminalMatchesSource ==
  \A w \in WsIds : ws[w].tsub = "closed" =>
     ws[w].notifs = <<IF Last(Scripts[ws[w].src]) = SrcComplete THEN Complete ELSE ErrorN(SrcError)>>

\* The chunks of a source script, in the order the source emits them.
ChunksOf(sc) == SelectSeq(Scripts[sc], LAMBDA v : v > 0)
\* A write of the driver w has not settled yet.
WritePending(w) ==
  \E s \in Streams : \E k \in 1..Len(sinkQ[s]) :
     sinkQ[s][k].op = "write" /\ sinkQ[s][k].by = DrvHolder(w)
\* The observable returned by the call w of writeStream() has completed.
Completed(w) == \E k \in 1..Len(ws[w].notifs) : ws[w].notifs[k] = Complete

\* C11: when the observable returned by writeStream(source) has signalled
\* completion, every chunk of the source has been handed to the sink and its
\* write has settled successfully: the driver is past the last chunk, none of
\* its writes is pending and none has failed.
C11_CompletesAfterAllWritten ==
  \A w \in WsIds : Completed(w) =>
     /\ ws[w].dpos > Len(ChunksOf(ws[w].src))
     /\ ~WritePending(w)
     /\ ws[w].failed = NoError

\* The chunks the sink has accepted from the driver w, in the order it
\* accepted them.
WrittenBy(w) ==
  LET q == SelectSeq(written[ws[w].strm], LAMBDA a : a.by = DrvHolder(w))
  IN [k \in 1..Len(q) |-> q[k].chunk]
IsPrefix(a, b) == Len(a) <= Len(b) /\ SubSeq(b, 1, Len(a)) = a
\* A step in which the writer.close() of the driver w succeeds.
CloseSucceeds(w) ==
  /\ ws[w].fin = "closing" /\ ws'[w].fin = "done"
  /\ sinkState[ws[w].strm] = "writable" /\ sinkState'[ws[w].strm] = "closed"

\* C12: within one write subscription the chunks reach the sink in the order
\* the source emitted them, none duplicated and none skipped: what the sink
\* has accepted from a driver is always a prefix of its source's chunks, and
\* it is the whole sequence when the driver's close of the sink succeeds.
C12_ChunksInSourceOrder ==
  /\ [](\A w \in WsIds : ws[w].strm # NoStream =>
          IsPrefix(WrittenBy(w), ChunksOf(ws[w].src)))
  /\ [][\A w \in WsIds : CloseSucceeds(w) =>
          WrittenBy(w) = ChunksOf(ws[w].src)]_vars

\* Two drivers have written to the same sink: the first was replaced after
\* its first chunk, the second wrote both of its chunks and closed the sink.
C12_Witness ==
  /\ ws[1].strm = ws[2].strm /\ ws[2].strm # NoStream
  /\ ws[1].src = 4 /\ WrittenBy(1) = <<2>>
  /\ ws[2].src = 3 /\ WrittenBy(2) = <<1, 2>>
  /\ ws[2].fin = "done" /\ sinkState[ws[2].strm] = "closed"

\* The notifications of the chunks a+1 .. b of a readable.
NextsOf(a, b) == [k \in 1..(b - a) |-> [n |-> "next", v |-> a + k]]
\* A step in which the pending read of the subscription r yields done.
ReadCompletes(r) ==
  rd[r].st = "pumping" /\ rd'[r].st = "ended" /\ ~rd'[r].unsub /\ rd'[r].rej = NoError

\* C13: a subscriber of readableToObservable whose source supplies the
\* chunks c1..cn and then closes has received exactly c1..cn in that order,
\* followed by completion, and the reader lock of the stream is then free.
C13_ReadDeliversSource ==
  [][\A r \in RdIds : ReadCompletes(r) =>
       /\ rd'[r].notifs = NextsOf(rd[r].start, pulled[rd[r].strm]) \o <<Complete>>
       /\ rlock'[rd[r].strm] = 0]_vars

\* A subscription that began at the start of its stream received both
\* chunks and the completion.
C13_Witness ==
  \E r \in RdIds :
     /\ rd[r].st = "ended" /\ rd[r].start = 0
     /\ rd[r].notifs = <<[n |-> "next", v |-> 1], [n |-> "next", v |-> 2], Complete>>
     /\ rlock[rd[r].strm] = 0

\* A step in which the read subscription r terminates: its source
\* completes, its pull fails, or its consumer unsubscribes.
ReadTerminates(r) ==
  \/ rd[r].st = "pumping" /\ rd'[r].st = "ended"
  \/ rd[r].st = "pumping" /\ ~rd[r].unsub /\ rd'[r].unsub

\* C14: after each termination path of a read subscription (source
\* completion, pull failure, early unsubscription) the reader lock is
\* released: the terminating step leaves the stream unlocked, so that a fresh
\* getReader() on it succeeds.
C14_ReaderReleasedOnEveryPath ==
  [][\A r \in RdIds : ReadTerminates(r) => rlock'[rd[r].strm] = 0]_vars

\* A step in which the source of the driver w completes / fails.
SourceCompletes(w) == ws[w].fin = "none" /\ ws'[w].fin = "closing"
SourceFails(w) == ws[w].fin = "none" /\ ws'[w].fin = "aborting"
\* A step in which the close() or abort() of the driver w settles.
FinishSettles(w) == ws[w].fin \in {"closing", "aborting"} /\ ws'[w].fin = "done"
\* A step in which the handle of the live driver w is torn down.
HandleTornDown(w) ==
  ws[w].dsub = "active" /\ ws'[w].dsub = "closed" /\ ws'[w].fin = "none" /\ ws'[w].failed = NoError

\* C15: the write driver releases its writer lock on every termination
\* path.  Source completion closes the sink and source failure aborts it with
\* the source's error as reason; when that close or abort settles, resolved
\* or rejected, the lock is released and nothing is reported to the caller;
\* the handle's teardown releases the lock at once.  The close or abort does
\* settle, and only a live driver ever holds a lock, so that a fresh
\* getWriter() on the stream then succeeds.
C15_WriterReleasedOnEveryPath ==
  /\ [](\A s \in Streams : wlock[s] \in WsIds => ~ws[wlock[s]].released)
  /\ [][\A w \in WsIds :
          /\ SourceCompletes(w) => Last(sinkQ'[ws[w].strm]) = SinkOp("close", DrvHolder(w), 0, FALSE)
          /\ SourceFails(w) =>
               /\ Last(sinkQ'[ws[w].strm]) = AbortOp(DrvHolder(w), SrcError, FALSE)
               /\ sinkState'[ws[w].strm] # "writable"
          /\ (FinishSettles(w) \/ HandleTornDown(w)) =>
               /\ ~HoldsWriterLock(w)'
               /\ ws'[w].released
               /\ ws'[w].notifs = ws[w].notifs
               /\ ws'[w].failed = ws[w].failed]_vars
  /\ \A w \in WsIds :
       (ws[w].fin \in {"closing", "aborting"}) ~> (ws[w].fin = "done" /\ ~HoldsWriterLock(w))

\* The close() of the first driver was rejected after both of its writes had
\* succeeded, and a second driver has since taken the writer lock of the same
\* stream.
C15_Witness ==
  /\ ws[1].src = 3 /\ ws[1].fin = "done" /\ ws[1].failed = NoError
  /\ WrittenBy(1) = <<1, 2>>
  /\ sinkState[ws[1].strm] = "errored"
  /\ ws[2].strm = ws[1].strm /\ wlock[ws[2].strm] = DrvHolder(2)

\* A step in which unsubscribe() is called on the read subscription r after
\* it has ended or has been unsubscribed.
ReadUnsubscribedAgain(r) == ~rd[r].again /\ rd'[r].again
\* A step that runs the teardown of the client's write handle although its
\* driver w has released its writer already (after completion, failure, or
\* a failed write).
StaleHandleTornDown(w) ==
  /\ writeSubscription.drv = w
  /\ ws[w].released
  /\ writeSubscription' # writeSubscription
  /\ writeSubscription'.drv # w

PullFails(r) ==
  rd[r].st = "pumping" /\ ~rd[r].unsub /\ rd'[r].st = "ended" /\ rd'[r].rej # NoError
\* No notification follows a terminal one.
TerminalIsLast(log) == \A k \in 1..Len(log) : IsTerminal(log[k]) => k = Len(log)

\* C17: when a pull from the source fails, the read subscription receives
\* exactly one terminal failure, of kind READ_FAILED, and nothing after it;
\* the failure carries the thrown value as cause, with its message when the
\* value is an Error and with the message 'Unknown error' otherwise.
C17_PullFailureIsReadFailed ==
  /\ [](\A r \in RdIds : TerminalIsLast(rd[r].notifs))
  /\ [][\A r \in RdIds : PullFails(r) =>
          LET e == rd'[r].rej
              x == Last(rd'[r].notifs).e
          IN /\ rd'[r].notifs = Append(rd[r].notifs, ErrorN(x))
             /\ x.cls = "SerialError"
             /\ x.code = "READ_FAILED"
             /\ x.originalError = e
             /\ x.message[2] = (IF IsError(e) THEN e.message ELSE "Unknown error")]_vars

\* One read subscription failed on a thrown Error after a chunk, another on
\* a thrown value that is not an Error.
C17_Witness ==
  /\ \E r \in RdIds : rd[r].rej = PlainError /\ Len(rd[r].notifs) = 2
                       /\ Last(rd[r].notifs).n = "error"
  /\ \E r \in RdIds : rd[r].rej = NonError /\ Last(rd[r].notifs).n = "error"

\* A step in which the platform write issued by the subscription x of
\* write(chunk) settles.
SingleWriteSettles(x) == wr[x].st = "writing" /\ wr'[x].st = "done"

\* C18: write(chunk) on an open client releases its writer lock in all
\* cases: once its platform write has settled, resolved or rejected, the
\* lock it acquired is free, and no finished write() ever holds a lock.
C18_SingleWriteReleasesLock ==
  /\ [](\A s \in Streams : \A x \in WrIds : wlock[s] = WrHolder(x) => wr[x].st = "writing")
  /\ [][\A x \in WrIds : SingleWriteSettles(x) => wlock'[wr[x].strm] = 0]_vars

\* A write(chunk) took the writer lock of an open port's stream, its
\* platform write was rejected, and the lock is free again.
C18_Witness ==
  \E x \in WrIds :
     /\ wr[x].st = "done" /\ wr[x].strm # NoStream /\ wr[x].rej \in WriteRejections
     /\ wlock[wr[x].strm] = 0

\* C19: when the platform write issued by write(chunk) rejects, the caller
\* receives exactly one failure, WRITE_FAILED wrapping the cause (made an
\* Error when it was not one); when it resolves, the caller receives a value
\* and the completion.
C19_SingleWriteOutcome ==
  [][\A x \in WrIds : SingleWriteSettles(x) =>
       LET e == wr'[x].rej
           log == wr'[x].notifs
       IN IF e = NoError THEN log = <<Next0, Complete>>
          ELSE /\ Len(log) = 1
               /\ log[1].n = "error"
               /\ log[1].e.cls = "SerialError"
               /\ log[1].e.code = "WRITE_FAILED"
               /\ log[1].e.originalError = (IF IsError(e) THEN e ELSE [cls |-> "Error", message |-> e.message])]_vars

\* The platform write of a write(chunk) was rejected with a value that is
\* not an Error and the caller has received the failure.
C19_Witness ==
  \E x \in WrIds : wr[x].st = "done" /\ wr[x].rej = NonError /\ Len(wr[x].notifs) = 1

\* A step in which the port selection of the connect attempt i is cancelled
\* by the user.
SelectionCancelled(i) ==
  conn[i].st = "requesting" /\ conn'[i].st = "done" /\ conn'[i].rej = NotFoundError

\* C20: when connect() is called with no handle and the user cancels the
\* port selection, connect fails with OPERATION_CANCELLED carrying the
\* platform's signal, the platform open call is never invoked for the
\* attempt, and the client's stored handle and isOpen are left as they were:
\* a client that was not open with no handle remains so.
C20_CancelledSelection ==
  [][\A i \in ConnIds : SelectionCancelled(i) =>
       /\ conn[i].arg = NoPort
       /\ Len(conn'[i].notifs) = 1
       /\ conn'[i].notifs[1].n = "error"
       /\ conn'[i].notifs[1].e.cls = "SerialError"
       /\ conn'[i].notifs[1].e.code = "OPERATION_CANCELLED"
       /\ conn'[i].notifs[1].e.originalError = NotFoundError
       /\ conn'[i].sel = NoPort
       /\ UNCHANGED <<client, platform>>]_vars

\* The only connect attempt made was cancelled: the client is not open and
\* holds no handle, and no port has left its closed state.
C20_Witness ==
  /\ \E i \in ConnIds : conn[i].st = "done" /\ conn[i].rej = NotFoundError /\ conn[i].sel = NoPort
  /\ \A i \in ConnIds : conn[i].st \in {"unused", "done"} /\ conn[i].rej \in {NoError, NotFoundError}
                         /\ conn[i].sel = NoPort
  /\ ~isOpen /\ port = NoPort
  /\ \A p \in Ports : native[p] = "closed"

\* Some filter of the list has neither id set.
HasEmptyFilter(fl) ==
  \E k \in 1..Len(fl.items) :
     fl.items[k].usbVendorId = Undefined /\ fl.items[k].usbProductId = Undefined
\* Some id present in the list is not an integer in [0, 65535].
HasInvalidId(fl) ==
  \E k \in 1..Len(fl.items) : \E v \in {fl.items[k].usbVendorId, fl.items[k].usbProductId} :
     v # Undefined /\ ~(v.int /\ v.v >= 0 /\ v.v <= MaxId)
NothingToFilter(opts) ==
  opts = NoOptions \/ opts.filters = NoFilters \/ Len(opts.filters.items) = 0
IsInvalidFilterOptions(b) ==
  b.t = "thrown" /\ b.error.cls = "SerialError" /\ b.error.code = "INVALID_FILTER_OPTIONS"

\* C24: buildRequestOptions returns undefined when the options or the
\* filter list are absent or the list is empty; otherwise it fails with
\* INVALID_FILTER_OPTIONS if and only if some filter has neither id set or
\* some present id is not an integer in [0, 65535], and otherwise returns
\* exactly the given filter list.
C24_BuildRequestOptions ==
  built # NotBuilt =>
    IF NothingToFilter(options) THEN built = Returned(Undefined)
    ELSE IF HasEmptyFilter(options.filters) \/ HasInvalidId(options.filters)
    THEN IsInvalidFilterOptions(built)
    ELSE built = Returned([filters |-> options.filters])

\* The only id the filter specifies is 0.
OnlyZero(f) ==
  \/ f.usbVendorId = Integer(0) /\ f.usbProductId = Undefined
  \/ f.usbVendorId = Undefined /\ f.usbProductId = Integer(0)
ValidNonZero(v) == v # Undefined /\ v.int /\ v.v >= 1 /\ v.v <= MaxId
\* One id of the filter is 0 and the other a valid id that is not 0.
ZeroPaired(f) ==
  \/ f.usbVendorId = Integer(0) /\ ValidNonZero(f.usbProductId)
  \/ ValidNonZero(f.usbVendorId) /\ f.usbProductId = Integer(0)

\* C25: a filter whose only specified id is 0 is rejected with
\* INVALID_FILTER_OPTIONS; filters that pair 0 with a non-zero id are
\* accepted and the list is returned unchanged.
C25_ZeroIdFilters ==
  built # NotBuilt /\ ~NothingToFilter(options) =>
    LET fl == options.filters.items IN
    /\ (\E k \in 1..Len(fl) : OnlyZero(fl[k])) => IsInvalidFilterOptions(built)
    /\ (\A k \in 1..Len(fl) : ZeroPaired(fl[k])) =>
          built = Returned([filters |-> options.filters])

\* A list whose first filter pairs 0 with another id and passes, and whose
\* second filter specifies only 0, has been rejected.
C25_Witness ==
  /\ options # NoOptions /\ options.filters # NoFilters
  /\ Len(options.filters.items) = 2
  /\ ZeroPaired(options.filters.items[1])
  /\ OnlyZero(options.filters.items[2])
  /\ IsInvalidFilterOptions(built)

\* A list of filters that pair 0 with another id has been returned.
C25_Accepted ==
  /\ options # NoOptions /\ options.filters # NoFilters
  /\ Len(options.filters.items) = 2
  /\ \A k \in 1..2 : ZeroPaired(options.filters.items[k])
  /\ built = Returned([filters |-> options.filters])

\* C21: requestPort() turns a rejection of the platform call that is the
\* cancellation signal (NotFoundError) into OPERATION_CANCELLED and every
\* other rejection into PORT_NOT_AVAILABLE; on success it emits the chosen
\* handle and completes; no step of it changes the stored handle or the
\* open flag.
C21_RequestPortOutcome ==
  [][\A k \in RpIds :
       /\ (rp[k].st = "requesting" /\ rp'[k].st = "done" /\ rp'[k].rej # NoError) =>
             /\ Len(rp'[k].notifs) = 1
             /\ rp'[k].notifs[1].n = "error"
             /\ rp'[k].notifs[1].e.cls = "SerialError"
             /\ rp'[k].notifs[1].e.code =
                  IF rp'[k].rej = NotFoundError THEN "OPERATION_CANCELLED"
                  ELSE "PORT_NOT_AVAILABLE"
       /\ (rp[k].st = "requesting" /\ rp'[k].st = "done" /\ rp'[k].rej = NoError) =>
             /\ rp'[k].sel \in Ports
             /\ rp'[k].notifs = <<NextV(rp'[k].sel), Complete>>
       /\ rp'[k] # rp[k] => port' = port /\ isOpen' = isOpen]_vars

\* An open client whose requestPort() emitted a handle other than the
\* stored one, and whose other requestPort() was refused with an ordinary
\* error and reported PORT_NOT_AVAILABLE.
C21_Witness ==
  /\ isOpen /\ port # NoPort
  /\ \E k \in RpIds :
       rp[k].st = "done" /\ rp[k].rej = NoError /\ rp[k].sel # port
         /\ rp[k].notifs = <<NextV(rp[k].sel), Complete>>
  /\ \E k \in RpIds :
       rp[k].st = "done" /\ rp[k].rej = PlainError
         /\ rp[k].notifs[1].e.code = "PORT_NOT_AVAILABLE"

\* C22: disconnect() subscribed on a client that is not open calls no
\* platform close, tears down no subscription, leaves the stored handle,
\* the open flag and both subscription references as they are, and emits
\* once and completes.
C22_DisconnectNotOpen ==
  [][\A d \in DiscIds :
       (disc[d].st = "unused" /\ disc'[d].st # "unused" /\ ~isOpen) =>
          /\ disc'[d].st = "done"
          /\ disc'[d].rej = NoError
          /\ disc'[d].notifs = <<Next0, Complete>>
          /\ UNCHANGED <<client, platform, rd, ws, wr>>]_vars

\* A disconnect() that did nothing on a client that is not open while a
\* write subscription is still recorded.
C22_Witness ==
  /\ ~isOpen
  /\ writeSubscription # NoHandle
  /\ \E d \in DiscIds :
       disc[d].st = "done" /\ disc[d].prt = NoPort /\ disc[d].notifs = <<Next0, Complete>>

\* An Error Value carrying one of the eleven kinds.
IsErrorValue(e) == e.cls = "SerialError" /\ e.code \in SerialErrorCode
\* The errors among the notifications an operation delivered.
ErrorsIn(notifs) == {notifs[j].e : j \in {i \in 1..Len(notifs) : notifs[i].n = "error"}}

\* C23: every failure that connect, disconnect, requestPort, a read-stream
\* subscription, write or writeStream delivers to its caller, as an error
\* notification or as the exception of the call, is an Error Value with
\* one of the eleven kinds; that includes the failure to acquire a reader
\* or writer lock that is already held.
C23_FailuresNormalized ==
  /\ \A i \in ConnIds : \A e \in ErrorsIn(conn[i].notifs) : IsErrorValue(e)
  /\ \A d \in DiscIds : \A e \in ErrorsIn(disc[d].notifs) : IsErrorValue(e)
  /\ \A k \in RpIds : \A e \in ErrorsIn(rp[k].notifs) : IsErrorValue(e)
  /\ \A r \in RdIds : \A e \in ErrorsIn(rd[r].notifs) : IsErrorValue(e)
  /\ \A x \in WrIds : \A e \in ErrorsIn(wr[x].notifs) : IsErrorValue(e)
  /\ \A w \in WsIds : \A e \in ErrorsIn(ws[w].notifs) : IsErrorValue(e)
  /\ \A w \in WsIds : ws[w].thrown # NoError => IsErrorValue(ws[w].thrown)

\* C26: once the sink returned by observableToWritable has been
\* activated (its start() has run), it is subscribed to the source it was
\* given, until that source terminates or the sink is aborted.
C26_SinkSubscribes ==
  \A k \in SinkIds : o2w[k].st = "created" => o2w[k].subscription = "active"

\* C27: in every reachable state, a connect attempt in flight included,
\* currentPort is null when connected is false.
C27_NoPortUnlessConnected == ~connected => currentPort = NoPort

\* The writes of the driver w that the writable s has not settled yet.
WritesInFlight(w, s) ==
  {k \in 1..Len(sinkQ[s]) : sinkQ[s][k].op = "write" /\ sinkQ[s][k].by = DrvHolder(w)}

\* C28: a write driver has at most one write in flight: it hands no chunk
\* to the writer before the write of the previous chunk has settled.
C28_OneWriteInFlight ==
  \A w \in WsIds : \A s \in Streams : Cardinality(WritesInFlight(w, s)) <= 1

\* getWriter() was called on a stream whose writer lock was outstanding:
\* the call is what throws the platform's TypeError.
AcquiredWhileLocked(e) == e = LockedTypeError

\* C29: the client never attempts to acquire a writer lock while one is
\* outstanding on the port: neither a write(chunk) subscribed while a
\* writeStream() or another write(chunk) holds the lock, nor a
\* writeStream() called while a write(chunk) holds it, calls getWriter().
C29_NoSecondWriterLock ==
  /\ \A x \in WrIds : \A e \in ErrorsIn(wr[x].notifs) : ~AcquiredWhileLocked(e)
  /\ \A w \in WsIds : ~AcquiredWhileLocked(ws[w].thrown)

\* C30: when disconnect() on an open client calls the platform close while
\* a write subscription is stored, the step leaves that subscription's
\* driver unsubscribed and without the writer lock and the client's
\* reference cleared, before the close is under way; the settlement of the
\* close, resolved or rejected, touches none of the three.
C30_WriterTornDownBeforeClose ==
  [][\A d \in DiscIds :
       /\ (CloseCalled(d) /\ writeSubscription # NoHandle) =>
            /\ ws'[writeSubscription.drv].dsub # "active"
            /\ \A s \in Streams : wlock'[s] # DrvHolder(writeSubscription.drv)
            /\ writeSubscription' = NoHandle
       /\ CloseSettled(d) =>
            /\ writeSubscription' = writeSubscription
            /\ wlock' = wlock
            /\ \A w \in WsIds : ws'[w].dsub = ws[w].dsub]_vars

\* The close of a disconnect() was rejected after the disconnect had torn
\* down the only write driver, whose source had emitted nothing yet and
\* whose returned observable nobody had subscribed to.
C30_Witness ==
  /\ \E d \in DiscIds : disc[d].st = "done" /\ disc[d].prt # NoPort /\ disc[d].rej # NoError
  /\ ws[1].st # "unused" /\ ws[2].st = "unused"
  /\ ws[1].dsub = "closed" /\ ws[1].released /\ ws[1].dpos = 1 /\ ws[1].tsub = "none"
  /\ writeSubscription = NoHandle
  /\ \A s \in Streams : wlock[s] = 0

\* A step in which a write of the driver w fails for the first time.
WriteFails(w) == ws[w].failed = NoError /\ ws'[w].failed # NoError

\* C31: when a write of a chunk fails in the write driver, the driver is
\* unsubscribed from its source and holds no writer lock afterwards; what
\* the sink had accepted stays accepted, and from then on the driver hands
\* no chunk to the sink and the sink accepts none from it.
C31_WriteFailureStopsDriver ==
  [][/\ \A s \in Streams : IsPrefix(written[s], written'[s])
     /\ \A w \in WsIds :
          /\ WriteFails(w) =>
               /\ ws'[w].dsub # "active"
               /\ ~HoldsWriterLock(w)'
               /\ ws'[w].failed.code = "WRITE_FAILED"
          /\ ws[w].failed # NoError =>
               /\ ws'[w].dsub # "active"
               /\ WrittenBy(w)' = WrittenBy(w)
               /\ \A s \in Streams : ~Forwards(w, s)]_vars

\* The second write of a two-chunk source failed after the first chunk had
\* been accepted; the source's completion has not been delivered and never
\* will be.
C31_Witness ==
  \E w \in WsIds :
     /\ ws[w].src = 3 /\ ws[w].failed # NoError
     /\ WrittenBy(w) = <<1>>
     /\ ws[w].dpos = 3 /\ ws[w].dsub = "closed"
     /\ sinkQ[ws[w].strm] = <<>>
     /\ ~HoldsWriterLock(w)

\* The subscription r took the reader lock of its stream.
TookReaderLock(r) ==
  rd[r].st \in {"pumping", "ended"} /\ rd[r].notifs # <<ErrorN(LockedTypeError)>>

\* C32: for a read subscription that has ended or has been unsubscribed,
\* the bridge has performed the release of the reader lock one time, not
\* zero times and not twice.
C32_ReleasedExactlyOnce ==
  \A r \in RdIds :
     (TookReaderLock(r) /\ (rd[r].st = "ended" \/ rd[r].unsub)) => rd[r].rel = 1

TrackerEnds(w) == ws[w].tsub = "active" /\ ws'[w].tsub = "closed"
\* The call w has been superseded: the write subscription the client
\* holds belongs to another call.
Superseded(w) == writeSubscription # NoHandle /\ writeSubscription.drv # w

\* C34: completion or error of the source of a superseded writeStream()
\* call leaves the write subscription the client holds now alone: its
\* driver stays subscribed, keeps its writer lock, stays the client's
\* write subscription, and its returned observable is not completed.
C34_StaleSourceLeavesCurrent ==
  [][\A w \in WsIds : (TrackerEnds(w) /\ Superseded(w)) =>
        /\ ws'[writeSubscription.drv].dsub = ws[writeSubscription.drv].dsub
        /\ wlock' = wlock
        /\ writeSubscription' = writeSubscription
        /\ ws'[writeSubscription.drv].notifs = ws[writeSubscription.drv].notifs]_vars

\* A step in which the connect attempt i fails.
ConnectFails(i) == conn[i].st # "done" /\ conn'[i].st = "done" /\ conn'[i].notifs[1].n = "error"

\* C35: when a connect attempt fails while the client is open with a
\* stored handle, the client stays open with that handle.
C35_FailedConnectKeepsConnection ==
  [][\A i \in ConnIds : (ConnectFails(i) /\ isOpen /\ port # NoPort) =>
        isOpen' /\ port' = port]_vars

\* The connect attempts whose platform open call has not settled.
OpensInFlight == {i \in ConnIds : conn[i].st = "opening"}
\* A step in which the client calls port.open() for the attempt i.
OpenCalled(i) == conn[i].st # "opening" /\ conn'[i].st = "opening"

\* C36: connecting is single-flight: at most one platform open call of the
\* client is in flight at any time, and the client issues no open call
\* while it is open.
C36_SingleFlightConnect ==
  /\ [](Cardinality(OpensInFlight) <= 1)
  /\ [][\A i \in ConnIds : OpenCalled(i) => ~isOpen]_vars

\* How many times the call w of writeStream() has subscribed to its
\* source: the driver's subscription and the one made by the returned
\* observable.
SourceSubscriptions(w) ==
  (IF ws[w].dsub # "none" THEN 1 ELSE 0) + (IF ws[w].tsub # "none" THEN 1 ELSE 0)

\* C37: a writeStream(source) call that passed its guard has subscribed to
\* its source exactly once, whether or not its returned observable has
\* been subscribed.
C37_SourceSubscribedOnce ==
  \A w \in WsIds : ws[w].st \in {"created", "subscribed"} => SourceSubscriptions(w) = 1

\* The disconnects that have called close() on the port p and whose close
\* has not settled.
ClosesPending(p) == {d \in DiscIds : disc[d].st = "closing" /\ disc[d].prt = p}

\* C38: the platform close call is invoked at most once for an established
\* connection: no port has two close calls of the client pending, also when
\* disconnect() is subscribed again while the first close is pending.
C38_CloseAtMostOnce ==
  \A p \in Ports : Cardinality(ClosesPending(p)) <= 1

\* C39: once the consumer has unsubscribed from the observable returned by
\* a writeStream() call, the call's driver is unsubscribed from the source
\* (it forwards no further chunk) and holds no writer lock.
C39_UnsubscribeStopsWrite ==
  \A w \in WsIds : ws[w].unsub => (ws[w].dsub # "active" /\ ~HoldsWriterLock(w))

\* C40: once a read subscription has been unsubscribed, its pump loop
\* removes no further chunk from the source stream: no step taken while the
\* subscription is unsubscribed raises the number of chunks pulled from its
\* stream on its behalf (while it still holds the reader lock).
C40_NoPullAfterUnsubscribe ==
  [][\A r \in RdIds :
       (rd[r].unsub /\ rlock[rd[r].strm] = r)
         => pulled'[rd[r].strm] = pulled[rd[r].strm]]_vars

====
